---- MODULE Spec2Model ----
(***************************************************************************)
(* The map/unmap lifecycle of the ivshmem endpoints: the Linux Guest       *)
(* (guest/guest_linux.go), the Windows Guest (guest_windows.go) and the    *)
(* Linux Host, together with the operating-system objects they act on:     *)
(* one shared-memory backing object, the mappings created over it and the  *)
(* Windows device handle.                                                  *)
(***************************************************************************)
EXTENDS Integers, Sequences, FiniteSets, TLC

\* ------------------------------------------------------------------------
\* Bounds of the model
\* ------------------------------------------------------------------------
MaxSize == 2    \* the backing object is 0..MaxSize bytes long
MaxByte == 1    \* a byte of the region takes the values 0..MaxByte
MaxMaps == 3    \* the OS refuses a further mapping once MaxMaps were created

Endpoints == {"host", "lguest", "wguest"}
Guests == {"lguest", "wguest"}
Offsets == 0..(MaxSize - 1)
Bytes == 0..MaxByte

NoMap == 0      \* the nil slice: a region that refers to no mapping
NoEndpoint == "none"

VARIABLES
    mapped,      \* mapped[e]: the endpoint's mapped field
    sharedMem,   \* sharedMem[e]: the mapping the endpoint's slice points into, or NoMap
    size,        \* size[e]: the endpoint's size field
    devHandle,   \* state of the device handle the Windows Guest holds
    shmSize,     \* length of the backing object (file, PCI BAR)
    shm,         \* bytes of the backing object
    maps,        \* every mapping the OS created, in creation order
    lastWrite,   \* per offset, the endpoint and value of the last store that reached memory
    everMapped,  \* everMapped[e]: some Map() on e has returned nil
    sinceMap,    \* sinceMap[e]: a Map() returned nil and no Unmap() was called since
    ret,         \* what the last call was, what it returned and which OS calls it issued
    codec,       \* a location-codec call: its input text and, once applied, its result
    enum,        \* a device enumeration: the devices present and the lists returned
    ctor         \* a constructor call: its argument and, once applied, what it returned

vars == <<mapped, sharedMem, size, devHandle, shmSize, shm, maps, lastWrite,
          everMapped, sinceMap, ret, codec, enum, ctor>>

\* the variables the map/unmap operations never touch
pureVars == <<codec, enum, ctor>>

Idle == [fn |-> "none"]

endpointVars == <<mapped, sharedMem, size>>
histVars == <<everMapped, sinceMap>>

ZeroBytes == [o \in Offsets |-> 0]

Result(op, e, res, calls, view) ==
    [op |-> op, ep |-> e, res |-> res, calls |-> calls, view |-> view]

\* ------------------------------------------------------------------------
\* Operating system: mappings
\* ------------------------------------------------------------------------
\* m names a mapping that exists and has not been released
Live(m) == m \in 1..Len(maps) /\ maps[m].live

\* flags the code passes to mmap
MmapFlagsPrivate == "MAP_PRIVATE"
MmapFlags == "MAP_SHARED"

\* length the code passes to mmap, given the size it read from stat
MmapLengthShort(statSize) == IF statSize > 1 THEN statSize - 1 ELSE statSize
MmapLength(statSize) == statSize

\* mmap(fd, 0, length, PROT_READ|PROT_WRITE, flags) can succeed
MmapCanSucceed(length) == length > 0 /\ Len(maps) < MaxMaps

NewMapping(e, length, flags) ==
    [owner |-> e, len |-> length, live |-> TRUE,
     shared |-> (flags = "MAP_SHARED"),
     priv |-> IF flags = "MAP_SHARED" THEN ZeroBytes ELSE shm]

Release(m) == [maps EXCEPT ![m].live = FALSE]

\* the byte an endpoint reads at offset o through its region
Read(e, o) ==
    LET m == sharedMem[e] IN
    IF maps[m].shared THEN shm[o] ELSE maps[m].priv[o]

\* len(sharedMem)
RegionLen(e) == IF sharedMem[e] = NoMap THEN 0 ELSE maps[sharedMem[e]].len

\* ------------------------------------------------------------------------
\* Initial state: the three endpoints as their constructors return them
\* ------------------------------------------------------------------------
LifecycleInit ==
    /\ mapped = [e \in Endpoints |-> FALSE]
    /\ sharedMem = [e \in Endpoints |-> NoMap]
    /\ size = [e \in Endpoints |-> 0]
    /\ devHandle = "open"
    /\ shmSize \in 0..MaxSize
    /\ shm = ZeroBytes
    /\ maps = <<>>
    /\ lastWrite = [o \in Offsets |-> [ep |-> NoEndpoint, val |-> 0]]
    /\ everMapped = [e \in Endpoints |-> FALSE]
    /\ sinceMap = [e \in Endpoints |-> FALSE]
    /\ ret = Result("none", NoEndpoint, "none", <<>>, NoMap)

Init ==
    /\ LifecycleInit
    /\ codec = Idle
    /\ enum = Idle
    /\ ctor = Idle

\* the endpoints stay as constructed while a codec, enumerator or constructor
\* call is examined on its own
lifecycleVars == <<mapped, sharedMem, size, devHandle, shmSize, shm, maps, lastWrite,
                   everMapped, sinceMap, ret>>

\* every variable except the endpoint fields, the mappings and ret
osQuiet == UNCHANGED <<devHandle, shmSize, shm, lastWrite, pureVars>>

\* A method declared on a value receiver (func (g Guest) ...) works on a copy
\* of the struct: a store to a field of g does not reach the caller's Guest.
StoreByValue(field, e, v) == field

\* A method declared on a pointer receiver (func (g *Guest) ...) stores into
\* the caller's struct.
StoreByPointer(field, e, v) == [field EXCEPT ![e] = v]

\* Map stores region, size and mapped after the last step that can fail: when
\* it returns at a failed step the field still holds what it held before.
MapStoresFirst(field, e, v) == [field EXCEPT ![e] = v]
MapStoresLast(field, e, v) == field

\* ------------------------------------------------------------------------
\* Linux Guest (guest/guest_linux.go)
\* ------------------------------------------------------------------------
\* `if g.mapped { return ErrAlreadyMapped }`
LinuxMapRejectsNever(g) == FALSE
LinuxMapRejects(g) == mapped[g]

\* `if !g.mapped { return ErrAlreadyUnmapped }`
LinuxUnmapRejectsNever(g) == FALSE
LinuxUnmapRejects(g) == ~mapped[g]

\* `if !g.mapped { panic(...) }`
LinuxSharedMemPanicsNever(g) == FALSE
LinuxSharedMemPanics(g) == ~mapped[g]

\* Guest.Map: stat, open, mmap the whole file, then store region, size, mapped
LinuxGuestMap ==
    LET g == "lguest" IN
    IF LinuxMapRejects(g)
    THEN /\ ret' = Result("Map", g, "ErrAlreadyMapped", <<>>, NoMap)
         /\ UNCHANGED <<endpointVars, maps, histVars>>
         /\ osQuiet
    ELSE \E failed \in {"stat", "open", "mmap", "none"} :
         LET length == MmapLength(shmSize) IN
         /\ failed = "none" => MmapCanSucceed(length)
         /\ osQuiet
         /\ IF failed = "none"
            THEN /\ maps' = Append(maps, NewMapping(g, length, MmapFlags))
                 /\ sharedMem' = StoreByPointer(sharedMem, g, Len(maps) + 1)
                 /\ size' = StoreByPointer(size, g, shmSize)
                 /\ mapped' = StoreByPointer(mapped, g, TRUE)
                 /\ everMapped' = [everMapped EXCEPT ![g] = TRUE]
                 /\ sinceMap' = [sinceMap EXCEPT ![g] = TRUE]
                 /\ ret' = Result("Map", g, "ok", <<"stat", "open", "mmap", "close">>, NoMap)
            ELSE /\ mapped' = MapStoresLast(mapped, g, TRUE)
                 /\ UNCHANGED <<sharedMem, size, maps, histVars>>
                 /\ ret' = Result("Map", g, "error",
                                  CASE failed = "stat" -> <<"stat">>
                                    [] failed = "open" -> <<"stat", "open">>
                                    [] OTHER -> <<"stat", "open", "mmap", "close">>,
                                  NoMap)

\* Guest.Unmap (value receiver): munmap the region, then g.mapped = false
LinuxGuestUnmap ==
    LET g == "lguest" IN
    /\ sinceMap' = [sinceMap EXCEPT ![g] = FALSE]
    /\ UNCHANGED <<everMapped, sharedMem, size>>
    /\ osQuiet
    /\ IF LinuxUnmapRejects(g)
       THEN /\ ret' = Result("Unmap", g, "ErrAlreadyUnmapped", <<>>, NoMap)
            /\ UNCHANGED <<mapped, maps>>
       ELSE IF Live(sharedMem[g])
       THEN /\ maps' = Release(sharedMem[g])
            /\ mapped' = StoreByValue(mapped, g, FALSE)
            /\ ret' = Result("Unmap", g, "ok", <<"munmap">>, NoMap)
       ELSE \* unix.Munmap of a slice that is no active mapping: EINVAL
            /\ ret' = Result("Unmap", g, "error", <<"munmap">>, NoMap)
            /\ UNCHANGED <<mapped, maps>>

\* Guest.SharedMem: panics when not mapped, else returns the region
LinuxGuestSharedMem ==
    LET g == "lguest" IN
    /\ UNCHANGED <<endpointVars, maps, histVars>>
    /\ osQuiet
    /\ IF LinuxSharedMemPanics(g)
       THEN ret' = Result("SharedMem", g, "panic", <<>>, NoMap)
       ELSE ret' = Result("SharedMem", g, "ok", <<>>, sharedMem[g])

\* Msync(region, MS_SYNC): fails on the nil slice, flushes a live mapping; on a
\* released range the kernel reports ENOMEM unless the addresses were reused.
MsyncResults(m) ==
    IF m = NoMap THEN {"error"}
    ELSE IF Live(m) THEN {"ok"}
    ELSE {"ok", "error"}

\* Guest.Sync
LinuxGuestSync ==
    LET g == "lguest" IN
    /\ UNCHANGED <<endpointVars, maps, histVars>>
    /\ osQuiet
    /\ \E res \in MsyncResults(sharedMem[g]) :
          ret' = Result("Sync", g, res, <<"msync">>, NoMap)

\* ------------------------------------------------------------------------
\* Windows Guest (guest_windows.go)
\* ------------------------------------------------------------------------
\* `if g.mapped { return ErrAlreadyMapped }`
WinMapRejectsNever(g) == FALSE
WinMapRejects(g) == mapped[g]

\* `if !g.mapped { return ErrAlreadyUnmapped }`
WinUnmapRejectsNever(g) == FALSE
WinUnmapRejects(g) == ~mapped[g]

\* `if !g.mapped { panic(...) }`
WinSharedMemPanicsNever(g) == FALSE
WinSharedMemPanics(g) == ~mapped[g]

\* length of the byte view built over the pointer the driver returned
WinViewLengthShort(ivshmemSize) == IF ivshmemSize > 1 THEN ivshmemSize - 1 ELSE ivshmemSize
WinViewLength(ivshmemSize) == ivshmemSize

\* Guest.Map: request size, request mapping, then store region, size, mapped
WinGuestMap ==
    LET g == "wguest" IN
    IF WinMapRejects(g)
    THEN /\ ret' = Result("Map", g, "ErrAlreadyMapped", <<>>, NoMap)
         /\ UNCHANGED <<endpointVars, maps, histVars>>
         /\ osQuiet
    ELSE \E failed \in {"size", "mmap", "none"} :
         /\ devHandle = "closed" => failed = "size"
         /\ failed = "none" => MmapCanSucceed(shmSize)
         /\ osQuiet
         /\ IF failed = "none"
            THEN /\ maps' = Append(maps, NewMapping(g, WinViewLength(shmSize), "MAP_SHARED"))
                 /\ sharedMem' = StoreByPointer(sharedMem, g, Len(maps) + 1)
                 /\ size' = StoreByPointer(size, g, shmSize)
                 /\ mapped' = StoreByPointer(mapped, g, TRUE)
                 /\ everMapped' = [everMapped EXCEPT ![g] = TRUE]
                 /\ sinceMap' = [sinceMap EXCEPT ![g] = TRUE]
                 /\ ret' = Result("Map", g, "ok", <<"ioctl_size", "ioctl_mmap">>, NoMap)
            ELSE /\ mapped' = MapStoresLast(mapped, g, TRUE)
                 /\ UNCHANGED <<sharedMem, size, maps, histVars>>
                 /\ ret' = Result("Map", g, "error",
                                  IF failed = "size" THEN <<"ioctl_size">>
                                  ELSE <<"ioctl_size", "ioctl_mmap">>,
                                  NoMap)

\* the mappings the driver holds for the Guest's handle
DriverMappings(g) == {m \in 1..Len(maps) : maps[m].owner = g /\ maps[m].live}

ReleaseAll(ms) == [m \in 1..Len(maps) |->
                     IF m \in ms THEN [maps[m] EXCEPT !.live = FALSE] ELSE maps[m]]

\* Guest.Unmap (value receiver): release the mapping, close the handle, then
\* g.mapped = false
WinGuestUnmap ==
    LET g == "wguest" IN
    /\ sinceMap' = [sinceMap EXCEPT ![g] = FALSE]
    /\ UNCHANGED <<everMapped, sharedMem, size, shmSize, shm, lastWrite, pureVars>>
    /\ IF WinUnmapRejects(g)
       THEN /\ ret' = Result("Unmap", g, "ErrAlreadyUnmapped", <<>>, NoMap)
            /\ UNCHANGED <<mapped, maps, devHandle>>
       ELSE \E failed \in {"release", "close", "none"} :
            /\ (devHandle = "closed" \/ DriverMappings(g) = {}) => failed = "release"
            /\ IF failed = "release"
               THEN /\ ret' = Result("Unmap", g, "error", <<"ioctl_release">>, NoMap)
                    /\ UNCHANGED <<mapped, maps, devHandle>>
               ELSE /\ maps' = ReleaseAll(DriverMappings(g))
                    /\ IF failed = "close"
                       THEN /\ ret' = Result("Unmap", g, "error",
                                             <<"ioctl_release", "CloseHandle">>, NoMap)
                            /\ UNCHANGED <<mapped, devHandle>>
                       ELSE /\ devHandle' = "closed"
                            /\ mapped' = StoreByValue(mapped, g, FALSE)
                            /\ ret' = Result("Unmap", g, "ok",
                                             <<"ioctl_release", "CloseHandle">>, NoMap)

\* Guest.SharedMem
WinGuestSharedMem ==
    LET g == "wguest" IN
    /\ UNCHANGED <<endpointVars, maps, histVars>>
    /\ osQuiet
    /\ IF WinSharedMemPanics(g)
       THEN ret' = Result("SharedMem", g, "panic", <<>>, NoMap)
       ELSE ret' = Result("SharedMem", g, "ok", <<>>, sharedMem[g])

\* Guest.Sync: windows.Fsync(g.devHandle)
WinGuestSync ==
    LET g == "wguest" IN
    /\ UNCHANGED <<endpointVars, maps, histVars>>
    /\ osQuiet
    /\ \E res \in (IF devHandle = "open" THEN {"ok", "error"} ELSE {"error"}) :
          ret' = Result("Sync", g, res, <<"Fsync">>, NoMap)

\* ------------------------------------------------------------------------
\* Linux Host
\* ------------------------------------------------------------------------
\* Host.Map has no check of h.mapped
HostMapRejects(h) == FALSE

\* Host.Unmap has no check of h.mapped
HostUnmapRejects(h) == FALSE

\* `if !h.mapped { panic(...) }`
HostSharedMemPanicsNever(h) == FALSE
HostSharedMemPanics(h) == ~mapped[h]

\* Host.Map: open, fstat, mmap the whole file, then store mapped, region, size
HostMap ==
    LET h == "host" IN
    IF HostMapRejects(h)
    THEN /\ ret' = Result("Map", h, "ErrAlreadyMapped", <<>>, NoMap)
         /\ UNCHANGED <<endpointVars, maps, histVars>>
         /\ osQuiet
    ELSE \E failed \in {"open", "stat", "mmap", "none"} :
         LET length == MmapLength(shmSize) IN
         /\ failed = "none" => MmapCanSucceed(length)
         /\ osQuiet
         /\ IF failed = "none"
            THEN /\ maps' = Append(maps, NewMapping(h, length, MmapFlags))
                 /\ mapped' = StoreByPointer(mapped, h, TRUE)
                 /\ sharedMem' = StoreByPointer(sharedMem, h, Len(maps) + 1)
                 /\ size' = StoreByPointer(size, h, shmSize)
                 /\ everMapped' = [everMapped EXCEPT ![h] = TRUE]
                 /\ sinceMap' = [sinceMap EXCEPT ![h] = TRUE]
                 /\ ret' = Result("Map", h, "ok", <<"open", "stat", "mmap", "close">>, NoMap)
            ELSE /\ mapped' = MapStoresLast(mapped, h, TRUE)
                 /\ UNCHANGED <<sharedMem, size, maps, histVars>>
                 /\ ret' = Result("Map", h, "error",
                                  CASE failed = "open" -> <<"open">>
                                    [] failed = "stat" -> <<"open", "stat", "close">>
                                    [] OTHER -> <<"open", "stat", "mmap", "close">>,
                                  NoMap)

\* Host.Unmap (value receiver): munmap the region
HostUnmap ==
    LET h == "host" IN
    /\ sinceMap' = [sinceMap EXCEPT ![h] = FALSE]
    /\ UNCHANGED <<everMapped, endpointVars>>
    /\ osQuiet
    /\ IF HostUnmapRejects(h)
       THEN /\ ret' = Result("Unmap", h, "ErrAlreadyUnmapped", <<>>, NoMap)
            /\ UNCHANGED maps
       ELSE IF Live(sharedMem[h])
       THEN /\ maps' = Release(sharedMem[h])
            /\ ret' = Result("Unmap", h, "ok", <<"munmap">>, NoMap)
       ELSE /\ ret' = Result("Unmap", h, "error", <<"munmap">>, NoMap)
            /\ UNCHANGED maps

\* Host.SharedMem
HostSharedMem ==
    LET h == "host" IN
    /\ UNCHANGED <<endpointVars, maps, histVars>>
    /\ osQuiet
    /\ IF HostSharedMemPanics(h)
       THEN ret' = Result("SharedMem", h, "panic", <<>>, NoMap)
       ELSE ret' = Result("SharedMem", h, "ok", <<>>, sharedMem[h])

\* Host.Sync
HostSync ==
    LET h == "host" IN
    /\ UNCHANGED <<endpointVars, maps, histVars>>
    /\ osQuiet
    /\ \E res \in MsyncResults(sharedMem[h]) :
          ret' = Result("Sync", h, res, <<"msync">>, NoMap)

\* ------------------------------------------------------------------------
\* The caller: copy(mem, msg) through the region SharedMem() returned
\* ------------------------------------------------------------------------
SharedMemPanics(e) ==
    CASE e = "lguest" -> LinuxSharedMemPanics(e)
      [] e = "wguest" -> WinSharedMemPanics(e)
      [] OTHER -> HostSharedMemPanics(e)

\* One byte v stored at offset o of the region of endpoint e.  A store
\* through a region whose mapping was released is a wild store: the process
\* faults, or the store lands in whatever now occupies the addresses.
Write(e, o, v) ==
    /\ UNCHANGED <<endpointVars, histVars, devHandle, shmSize, pureVars>>
    /\ IF SharedMemPanics(e)
       THEN /\ ret' = Result("Write", e, "panic", <<>>, NoMap)
            /\ UNCHANGED <<shm, maps, lastWrite>>
       ELSE LET m == sharedMem[e] IN
            /\ o < RegionLen(e)
            /\ IF Live(m)
               THEN /\ ret' = Result("Write", e, "ok", <<>>, m)
                    /\ lastWrite' = [lastWrite EXCEPT ![o] = [ep |-> e, val |-> v]]
                    /\ IF maps[m].shared
                       THEN /\ shm' = [shm EXCEPT ![o] = v]
                            /\ UNCHANGED maps
                       ELSE /\ maps' = [maps EXCEPT ![m].priv[o] = v]
                            /\ UNCHANGED shm
               ELSE /\ \E res \in {"segv", "corrupt"} :
                          ret' = Result("Write", e, res, <<>>, m)
                    /\ UNCHANGED <<shm, maps, lastWrite>>

\* the endpoints' operations
Next ==
    \/ LinuxGuestMap
    \/ LinuxGuestUnmap
    \/ LinuxGuestSharedMem
    \/ LinuxGuestSync
    \/ WinGuestMap
    \/ WinGuestUnmap
    \/ WinGuestSharedMem
    \/ WinGuestSync
    \/ HostMap
    \/ HostUnmap
    \/ HostSharedMem
    \/ HostSync

Spec == Init /\ [][Next]_vars

\* the two Linux endpoints that map the same backing object, and their
\* callers storing into it
Writers == {"host", "lguest"}

NextMem ==
    \/ HostMap
    \/ HostUnmap
    \/ HostSync
    \/ LinuxGuestMap
    \/ LinuxGuestUnmap
    \/ LinuxGuestSync
    \/ \E e \in Writers, o \in Offsets, v \in Bytes : Write(e, o, v)

SpecMem == Init /\ [][NextMem]_vars

TypeOK ==
    /\ mapped \in [Endpoints -> BOOLEAN]
    /\ sharedMem \in [Endpoints -> 0..MaxMaps]
    /\ size \in [Endpoints -> 0..MaxSize]
    /\ devHandle \in {"open", "closed"}
    /\ shmSize \in 0..MaxSize
    /\ shm \in [Offsets -> Bytes]
    /\ Len(maps) <= MaxMaps

\* ------------------------------------------------------------------------
\* Text: a Go string is the sequence of its one-character strings
\* ------------------------------------------------------------------------
DecChars == <<"0", "1", "2", "3", "4", "5", "6", "7", "8", "9">>
LowerHex == DecChars \o <<"a", "b", "c", "d", "e", "f">>
UpperHex == DecChars \o <<"A", "B", "C", "D", "E", "F">>

\* the value of character c as a digit, or -1 when it is no digit of any base
\* up to 16 (strconv: '0'..'9', 'a'..'z' and 'A'..'Z' lowered)
DigitVal(c) ==
    IF \E i \in 1..16 : LowerHex[i] = c \/ UpperHex[i] = c
    THEN (CHOOSE i \in 1..16 : LowerHex[i] = c \/ UpperHex[i] = c) - 1
    ELSE -1

RECURSIVE Pow(_, _)
Pow(b, n) == IF n = 0 THEN 1 ELSE b * Pow(b, n - 1)

\* largest value of an unsigned integer of bitSize bits
UintMaxWide(bitSize) == Pow(2, 2 * bitSize) - 1
UintMax(bitSize) == Pow(2, bitSize) - 1

\* strconv.ParseUint(s, base, bitSize) for an explicit base: the empty string,
\* a character that is no digit of the base, or a value above the bitSize
\* maximum is an error
RECURSIVE ParseUintFrom(_, _, _, _)
ParseUintFrom(s, base, max, acc) ==
    IF s = <<>> THEN [err |-> FALSE, val |-> acc]
    ELSE LET d == DigitVal(Head(s)) IN
         IF d < 0 \/ d >= base THEN [err |-> TRUE, val |-> 0]
         ELSE IF acc * base + d > max THEN [err |-> TRUE, val |-> max]
         ELSE ParseUintFrom(Tail(s), base, max, acc * base + d)

ParseUint(s, base, bitSize) ==
    IF s = <<>> THEN [err |-> TRUE, val |-> 0]
    ELSE ParseUintFrom(s, base, UintMax(bitSize), 0)

\* strconv.Atoi(s): an optional sign, then decimal digits
Atoi(s) ==
    LET signed == s # <<>> /\ Head(s) \in {"+", "-"}
        digits == IF signed THEN Tail(s) ELSE s
        \* the int limit stands far above every number the model's texts spell
        u == IF digits = <<>> THEN [err |-> TRUE, val |-> 0]
             ELSE ParseUintFrom(digits, 10, Pow(2, 30), 0)
    IN IF u.err THEN [err |-> TRUE, val |-> 0]
       ELSE [err |-> FALSE,
             val |-> IF signed /\ Head(s) = "-" THEN 0 - u.val ELSE u.val]

\* the conversion uint8(x) of a Go int
Uint8(x) == x % 256

\* strings.Split(s, sep) for a one-character separator
RECURSIVE Split(_, _)
Split(s, sep) ==
    IF \A i \in 1..Len(s) : s[i] # sep THEN <<s>>
    ELSE LET i == CHOOSE k \in 1..Len(s) :
                      s[k] = sep /\ \A j \in 1..(k - 1) : s[j] # sep
         IN <<SubSeq(s, 1, i - 1)>> \o Split(SubSeq(s, i + 1, Len(s)), sep)

IsSpace(c) == c \in {" ", "\t", "\n", "\r"}

\* strings.Fields(s): the maximal runs of non-space characters
RECURSIVE Fields(_)
Fields(s) ==
    IF s = <<>> THEN <<>>
    ELSE IF IsSpace(Head(s)) THEN Fields(Tail(s))
    ELSE LET stops == {k \in 1..Len(s) : IsSpace(s[k])}
             n == IF stops = {} THEN Len(s) + 1
                  ELSE CHOOSE k \in stops : \A j \in stops : k <= j
         IN <<SubSeq(s, 1, n - 1)>> \o Fields(SubSeq(s, n, Len(s)))

\* fmt's %d of a Go integer
RECURSIVE DecDigits(_)
DecDigits(n) ==
    IF n < 10 THEN <<DecChars[n + 1]>>
    ELSE DecDigits(n \div 10) \o <<DecChars[(n % 10) + 1]>>

FormatDec(n) == IF n < 0 THEN <<"-">> \o DecDigits(0 - n) ELSE DecDigits(n)

\* ------------------------------------------------------------------------
\* PCILocation and the sysfs codec (guest/guest_linux.go)
\* ------------------------------------------------------------------------
PCILocation(b, d, f) == [bus |-> b, device |-> d, function |-> f]

NoLocation == [bus |-> -1, device |-> -1, function |-> -1]

Failed(why) == [err |-> why, loc |-> NoLocation]
Parsed(l) == [err |-> "none", loc |-> l]

\* the colon part convertLocation reads the bus from
SysfsBusPartFirst(parts) == parts[1]
SysfsBusPart(parts) == parts[2]

\* convertLocation of a PCI directory name such as "0000:08:01.0"
SysfsConvertLocation(locationDescription) ==
    LET parts == Split(locationDescription, ":") IN
    IF Len(parts) # 3 THEN Failed("format")
    ELSE LET bus == ParseUint(SysfsBusPart(parts), 16, 8) IN
         IF bus.err THEN Failed("bus")
         ELSE LET devFunc == Split(parts[3], ".") IN
              IF Len(devFunc) # 2 THEN Failed("devfunc")
              ELSE LET device == ParseUint(devFunc[1], 16, 8) IN
                   IF device.err THEN Failed("device")
                   ELSE LET function == ParseUint(devFunc[2], 16, 8) IN
                        IF function.err THEN Failed("function")
                        ELSE Parsed(PCILocation(Uint8(bus.val), Uint8(device.val),
                                                Uint8(function.val)))

\* ------------------------------------------------------------------------
\* The sysfs codec applied to directory names
\* ------------------------------------------------------------------------
MaxHexVal == 300   \* field values 0..MaxHexVal are spelled out as hexadecimal text

RECURSIVE HexDigits(_, _)
HexDigits(n, chars) ==
    IF n < 16 THEN <<chars[n + 1]>>
    ELSE HexDigits(n \div 16, chars) \o <<chars[(n % 16) + 1]>>

\* the kernel's %02x, and upper-case digits without padding
HexText(n, style) ==
    IF style = "%02x"
    THEN (IF n < 16 THEN <<"0">> ELSE <<>>) \o HexDigits(n, LowerHex)
    ELSE HexDigits(n, UpperHex)

\* a field of a directory name: its text and the hexadecimal value the text
\* spells, -1 when the text is no hexadecimal number
HexFields ==
    {[txt |-> HexText(n, st), val |-> n] : n \in 0..MaxHexVal, st \in {"%02x", "%X"}}

BadFields ==
    {[txt |-> t, val |-> -1] :
        t \in {<<>>, <<"g">>, <<"0", "x", "8">>, <<"-", "1">>, <<"+", "1">>, <<"8", " ">>}}

PlainFields == {[txt |-> HexText(n, "%02x"), val |-> n] : n \in {1, 254}}

Domains == {<<"0", "0", "0", "0">>, <<"0", "0", "0", "1">>}

Shapes == {"ok", "two", "four", "nodot", "twodot"}

\* the directory name made of a domain and three fields
BuildName(shape, dom, b, d, f) ==
    CASE shape = "ok"     -> dom \o <<":">> \o b \o <<":">> \o d \o <<".">> \o f
      [] shape = "two"    -> dom \o <<":">> \o b \o d \o <<".">> \o f
      [] shape = "four"   -> dom \o <<":">> \o b \o <<":">> \o d \o <<":">> \o f
      [] shape = "nodot"  -> dom \o <<":">> \o b \o <<":">> \o d \o f
      [] OTHER            -> dom \o <<":">> \o b \o <<":">> \o d \o <<".">> \o f \o <<".">> \o f

SysfsCall(shape, dom, b, d, f) ==
    [fn |-> "sysfs", shape |-> shape, domain |-> dom,
     bus |-> b, device |-> d, function |-> f,
     in |-> BuildName(shape, dom, b.txt, d.txt, f.txt),
     done |-> FALSE, out |-> Failed("pending")]

InitSysfs ==
    /\ LifecycleInit
    /\ shmSize = 0
    /\ enum = Idle
    /\ ctor = Idle
    /\ \E shape \in Shapes, dom \in Domains, x \in HexFields \cup BadFields,
          y \in PlainFields, z \in PlainFields, focus \in 1..3 :
          codec = CASE focus = 1 -> SysfsCall(shape, dom, x, y, z)
                    [] focus = 2 -> SysfsCall(shape, dom, y, x, z)
                    [] OTHER     -> SysfsCall(shape, dom, y, z, x)

\* one call of convertLocation
SysfsConvert ==
    /\ codec.fn = "sysfs"
    /\ ~codec.done
    /\ codec' = [codec EXCEPT !.done = TRUE, !.out = SysfsConvertLocation(codec.in)]
    /\ UNCHANGED <<lifecycleVars, enum, ctor>>

SpecSysfs == InitSysfs /\ [][SysfsConvert]_vars

SysfsFields == {codec.bus, codec.device, codec.function}

\* C14: a name "DDDD:BB:DD.F" whose bus, device and function fields are
\* hexadecimal numbers in 0..0xFF converts to the PCILocation of those three
\* values, whatever the domain part is.
C14_SysfsDecodes ==
    (/\ codec.fn = "sysfs" /\ codec.done /\ codec.shape = "ok"
     /\ \A fld \in SysfsFields : fld.val \in 0..255)
    => codec.out = Parsed(PCILocation(codec.bus.val, codec.device.val, codec.function.val))

C14_Witness ==
    /\ codec.fn = "sysfs" /\ codec.done
    /\ codec.in = <<"0", "0", "0", "1", ":", "f", "e", ":", "0", "1", ".", "F", "F">>
    /\ codec.out = Parsed(PCILocation(254, 1, 255))

\* C15 as stated: a field whose hexadecimal value does not fit in 8 bits is
\* truncated to its low 8 bits and the parse succeeds; the parse fails only
\* on a part-count mismatch or a field that is no hexadecimal number.
C15_SysfsTruncates ==
    (/\ codec.fn = "sysfs" /\ codec.done /\ codec.shape = "ok"
     /\ \A fld \in SysfsFields : fld.val >= 0)
    => codec.out = Parsed(PCILocation(codec.bus.val % 256, codec.device.val % 256,
                                      codec.function.val % 256))

\* C15 as amended: a field whose hexadecimal value does not fit in 8 bits
\* makes the parse fail; the parse succeeds exactly when the part counts
\* match and every field is a hexadecimal number of value at most 0xFF.
C15_SysfsRejectsWide ==
    (codec.fn = "sysfs" /\ codec.done)
    => (codec.out.err = "none"
        <=> (codec.shape = "ok" /\ \A fld \in SysfsFields : fld.val \in 0..255))

C15_Witness ==
    /\ codec.fn = "sysfs" /\ codec.done /\ codec.shape = "ok"
    /\ codec.bus.txt = <<"1", "0", "0">>
    /\ codec.out = Failed("bus")

\* ------------------------------------------------------------------------
\* PCILocation.String and the Windows codec (guest_windows.go)
\* ------------------------------------------------------------------------
\* fmt.Sprintf("PCI bus %d, device %d, function %d", p.bus, p.device, p.function)
LocationString(p) ==
    <<"P", "C", "I", " ", "b", "u", "s", " ">> \o FormatDec(p.bus)
    \o <<",", " ", "d", "e", "v", "i", "c", "e", " ">> \o FormatDec(p.device)
    \o <<",", " ", "f", "u", "n", "c", "t", "i", "o", "n", " ">> \o FormatDec(p.function)

\* the text convertLocation hands to Atoi for the function number
WinFunctionTextFirst(parts) == <<parts[7][1]>>
WinFunctionText(parts) == parts[7]

\* convertLocation of a location text such as "PCI bus 4, device 1, function 0"
WinConvertLocation(windowsLocation) ==
    LET parts == Fields(windowsLocation) IN
    IF Len(parts) # 7 THEN Failed("format")
    ELSE LET bus == Atoi(<<parts[3][1]>>) IN
         IF bus.err THEN Failed("bus")
         ELSE LET device == Atoi(<<parts[5][1]>>) IN
              IF device.err THEN Failed("device")
              ELSE LET function == Atoi(WinFunctionText(parts)) IN
                   IF function.err THEN Failed("function")
                   ELSE Parsed(PCILocation(Uint8(bus.val), Uint8(device.val),
                                           Uint8(function.val)))

\* ------------------------------------------------------------------------
\* The Windows codec applied to location texts
\* ------------------------------------------------------------------------
MaxBusDev == 11   \* String() is applied to bus and device numbers 0..MaxBusDev
MaxFnText == 257  \* function tokens spell out the integers -2..MaxFnText

\* a token: its text, whether the text holds the number the codec is meant to
\* read from it (num), and that number (val)

\* "B," tokens: the number is the decimal digit the token starts with
DigitTokens ==
    {[txt |-> FormatDec(n) \o <<",">>, num |-> TRUE, val |-> n] : n \in {0, 4, 9}}
    \cup {[txt |-> <<"1", "2", ",">>, num |-> TRUE, val |-> 1],
          [txt |-> <<"x", ",">>, num |-> FALSE, val |-> 0],
          [txt |-> <<",", "4">>, num |-> FALSE, val |-> 0],
          [txt |-> <<"-", "4", ",">>, num |-> FALSE, val |-> 0]}

\* function tokens: the number is the decimal value of the whole token
FunctionTokens ==
    {[txt |-> FormatDec(n), num |-> TRUE, val |-> n] : n \in (0 - 2)..MaxFnText}
    \cup {[txt |-> <<"+", "7">>, num |-> TRUE, val |-> 7],
          [txt |-> <<"x">>, num |-> FALSE, val |-> 0],
          [txt |-> <<"1", "x">>, num |-> FALSE, val |-> 0],
          [txt |-> <<"0", "x", "1">>, num |-> FALSE, val |-> 0],
          [txt |-> <<"-">>, num |-> FALSE, val |-> 0]}

Word(w) == [txt |-> w, num |-> FALSE, val |-> 0]

\* the tokens joined by the separator, with the separator around them as well
RECURSIVE JoinTokens(_, _)
JoinTokens(tokens, sep) ==
    IF tokens = <<>> THEN sep
    ELSE sep \o Head(tokens).txt \o JoinTokens(Tail(tokens), sep)

TokenLists ==
    {LET seven == <<Word(<<"P", "C", "I">>), Word(<<"b", "u", "s">>), b,
                    Word(<<"d", "e", "v">>), d, Word(<<"f", "n">>), f>>
     IN CASE count = 6 -> SubSeq(seven, 1, 6)
          [] count = 7 -> seven
          [] OTHER     -> seven \o <<Word(<<"x">>)>> :
     b \in DigitTokens, d \in DigitTokens, f \in FunctionTokens, count \in 6..8}

InitWin ==
    /\ LifecycleInit
    /\ shmSize = 0
    /\ enum = Idle
    /\ ctor = Idle
    /\ \/ \E b \in 0..MaxBusDev, d \in 0..MaxBusDev, f \in 0..255 :
             codec = [fn |-> "win", src |-> "String", loc |-> PCILocation(b, d, f),
                      tokens |-> <<>>, in |-> LocationString(PCILocation(b, d, f)),
                      done |-> FALSE, out |-> Failed("pending")]
       \/ \E tokens \in TokenLists, sep \in {<<" ">>, <<"\t", " ">>} :
             codec = [fn |-> "win", src |-> "tokens", loc |-> NoLocation,
                      tokens |-> tokens, in |-> JoinTokens(tokens, sep),
                      done |-> FALSE, out |-> Failed("pending")]

\* one call of convertLocation
WinConvert ==
    /\ codec.fn = "win"
    /\ ~codec.done
    /\ codec' = [codec EXCEPT !.done = TRUE, !.out = WinConvertLocation(codec.in)]
    /\ UNCHANGED <<lifecycleVars, enum, ctor>>

SpecWin == InitWin /\ [][WinConvert]_vars

\* C16: convertLocation fails, with no location, whenever the text does not
\* split into exactly 7 tokens; on 7 tokens it returns bus = the first
\* character of token[2] as a decimal digit, device = the first character of
\* token[4] as a decimal digit, function = the decimal value of token[6].
C16_WinDecodes ==
    (codec.fn = "win" /\ codec.done /\ codec.src = "tokens") =>
        LET t == codec.tokens IN
        /\ Len(t) # 7 => (codec.out.err # "none" /\ codec.out.loc = NoLocation)
        /\ (Len(t) = 7 /\ t[3].num /\ t[5].num /\ t[7].num)
             => codec.out = Parsed(PCILocation(t[3].val, t[5].val, t[7].val))

\* C17: for bus and device in 0..9 and function in 0..255, convertLocation of
\* the String() of a PCILocation succeeds and returns that PCILocation.
C17_RoundTrip ==
    (/\ codec.fn = "win" /\ codec.done /\ codec.src = "String"
     /\ codec.loc.bus \in 0..9 /\ codec.loc.device \in 0..9)
    => codec.out = Parsed(codec.loc)

C17_Witness ==
    /\ codec.fn = "win" /\ codec.done /\ codec.src = "String"
    /\ codec.loc = PCILocation(9, 7, 255)
    /\ codec.out = Parsed(codec.loc)

\* C34: on a 7-token text whose function token is a decimal integer below 0
\* or above 255, convertLocation returns an error, never a PCILocation whose
\* function is that integer reduced modulo 256.
C34_WinFunctionRangeChecked ==
    (/\ codec.fn = "win" /\ codec.done /\ codec.src = "tokens"
     /\ Len(codec.tokens) = 7
     /\ codec.tokens[7].num
     /\ codec.tokens[7].val \notin 0..255)
    => (codec.out.err # "none" /\ codec.out.loc = NoLocation)

\* ------------------------------------------------------------------------
\* sort.Slice on a slice shorter than 12 elements: insertion sort
\* ------------------------------------------------------------------------
\* the less functions handed to sort.Slice, by the enumerator that uses them
\* Linux ListDevices: bus, then device, then function; true on equal elements
LinuxLessBusOnly(a, b) == a.bus < b.bus
LinuxLess(a, b) ==
    IF a.bus < b.bus THEN TRUE
    ELSE IF a.bus > b.bus THEN FALSE
    ELSE IF a.device < b.device THEN TRUE
    ELSE IF a.device > b.device THEN FALSE
    ELSE IF a.function < b.function THEN TRUE
    ELSE IF a.function > b.function THEN FALSE
    ELSE TRUE

\* Windows getIvshmemDevices: devInfoDatas[i].busAddr < devInfoDatas[j].busAddr
WinLess(a, b) == a.busAddr < b.busAddr

Less(which, a, b) == IF which = "linux" THEN LinuxLess(a, b) ELSE WinLess(a, b)

Swap(data, i, j) == [data EXCEPT ![i] = data[j], ![j] = data[i]]

\* for j := i; j > a && less(data[j], data[j-1]); j-- { data.Swap(j, j-1) }
RECURSIVE InsertLeft(_, _, _)
InsertLeft(data, j, which) ==
    IF j > 1 /\ Less(which, data[j], data[j - 1])
    THEN InsertLeft(Swap(data, j, j - 1), j - 1, which)
    ELSE data

\* for i := a + 1; i < b; i++ { ... }
RECURSIVE InsertionSort(_, _, _)
InsertionSort(data, i, which) ==
    IF i > Len(data) THEN data
    ELSE InsertionSort(InsertLeft(data, i, which), i + 1, which)

SortSliceSkipped(data, which) == data
SortSlice(data, which) == InsertionSort(data, 2, which)

\* ------------------------------------------------------------------------
\* Linux enumerator (guest_linux.go): listIvshmemPCIRaw and ListDevices
\* ------------------------------------------------------------------------
IVSHMEM_VENDOR == <<"0", "x", "1", "a", "f", "4">>
IVSHMEM_DEVICE == <<"0", "x", "1", "1", "1", "0">>

\* strings.TrimSpace
RECURSIVE TrimSpace(_)
TrimSpace(s) ==
    IF s = <<>> THEN s
    ELSE IF IsSpace(Head(s)) THEN TrimSpace(Tail(s))
    ELSE IF IsSpace(s[Len(s)]) THEN TrimSpace(SubSeq(s, 1, Len(s) - 1))
    ELSE s

\* the entries of PCI_PATH that pass the name test
NameLooksPCIAnyLength(test) == Len(Split(test.name, ":")) = 3
NameLooksPCI(test) == Len(test.name) = 12 /\ Len(Split(test.name, ":")) = 3

\* what the second loop of listIvshmemPCIRaw does with one candidate: "fail"
\* when os.ReadFile of a file it reads fails, "skip" when an id differs,
\* "keep" otherwise; the device file is read only after the vendor matched
Candidate(dev) ==
    IF ~dev.vendor.ok THEN "fail"
    ELSE IF TrimSpace(dev.vendor.data) # IVSHMEM_VENDOR THEN "skip"
    ELSE IF ~dev.device.ok THEN "fail"
    ELSE IF TrimSpace(dev.device.data) # IVSHMEM_DEVICE THEN "skip"
    ELSE "keep"

\* listIvshmemPCIRaw over the directory entries in the order they are read:
\* a vendor or device file that cannot be read fails the listing
ListIvshmemPCIRaw(entry) ==
    LET devices == SelectSeq(entry, NameLooksPCI)
        IsIvshmem(dev) == Candidate(dev) = "keep"
        ivshmemDevices == SelectSeq(devices, IsIvshmem)
    IN IF \E i \in 1..Len(devices) : Candidate(devices[i]) = "fail"
       THEN [err |-> "read", names |-> <<>>]
       ELSE [err |-> "none",
             names |-> [i \in 1..Len(ivshmemDevices) |-> ivshmemDevices[i].name]]

\* the loop of ListDevices: names that do not convert are printed and skipped
ConvertAllUnfiltered(devices) ==
    [i \in 1..Len(devices) |-> SysfsConvertLocation(devices[i]).loc]
ConvertAll(devices) ==
    LET Converts(dev) == SysfsConvertLocation(dev).err = "none"
        good == SelectSeq(devices, Converts)
    IN [i \in 1..Len(good) |-> SysfsConvertLocation(good[i]).loc]

LinuxListDevicesOf(entry) ==
    LET devices == ListIvshmemPCIRaw(entry) IN
    IF devices.err # "none" THEN [err |-> "get raw devices", list |-> <<>>]
    ELSE [err |-> "none", list |-> SortSlice(ConvertAll(devices.names), "linux")]

\* ------------------------------------------------------------------------
\* Windows enumerator (guest_windows.go): getIvshmemDevices and ListDevices
\* ------------------------------------------------------------------------
\* The registry values SPDRP_BUSNUMBER and SPDRP_ADDRESS are RegBits wide and
\* the sort key is twice as wide (32 and 64 bits in the program).
RegBits == 8
MaxReg == Pow(2, RegBits) - 1

RECURSIVE BitOr(_, _)
BitOr(a, b) ==
    IF a = 0 THEN b
    ELSE IF b = 0 THEN a
    ELSE (IF a % 2 = 1 \/ b % 2 = 1 THEN 1 ELSE 0) + 2 * BitOr(a \div 2, b \div 2)

\* the shift is done after widening, so no bit of busNumber is lost
ShiftLeftNarrow(busNumber) == (busNumber * Pow(2, RegBits)) % Pow(2, RegBits)
ShiftLeftWide(busNumber) == (busNumber * Pow(2, RegBits)) % Pow(2, 2 * RegBits)

\* uint64(busNumberRaw.(uint32))<<32 | uint64(busAddressRaw.(uint32))
WinSortKey(busNumber, busAddress) == BitOr(ShiftLeftWide(busNumber), busAddress)

\* the registry properties getIvshmemDevices reads of every entry: the
\* package-guest variant also reads the device description
PropertyReads(variant) ==
    IF variant = "package"
    THEN {"bus number", "bus address", "desc", "location"}
    ELSE {"bus number", "bus address", "location"}

\* the error the loop body returns for one entry, "none" when it appends it:
\* SetupDiEnumDeviceInfo failing with another error than ERROR_NO_MORE_ITEMS,
\* a property read failing, the location text not converting
EntryError(variant, info) ==
    IF info.fails = "device information" THEN "ivshmem device information"
    ELSE IF info.fails \in PropertyReads(variant) THEN info.fails
    ELSE IF WinConvertLocation(info.location).err # "none" THEN "convert location"
    ELSE "none"

\* the loop and the sort of getIvshmemDevices over the device-info entries in
\* the order SetupDiEnumDeviceInfo yields them; ERROR_NO_MORE_ITEMS after the
\* last entry ends the loop
RECURSIVE CollectDevices(_, _, _, _)
CollectDevices(variant, infos, devIndex, devInfoDatas) ==
    IF devIndex > Len(infos)
    THEN [err |-> "none", devices |-> SortSlice(devInfoDatas, "windows")]
    ELSE IF EntryError(variant, infos[devIndex]) # "none"
    THEN [err |-> EntryError(variant, infos[devIndex]), devices |-> <<>>]
    ELSE CollectDevices(variant, infos, devIndex + 1,
             Append(devInfoDatas,
                 [loc |-> WinConvertLocation(infos[devIndex].location).loc,
                  busAddr |-> WinSortKey(infos[devIndex].busNumber,
                                         infos[devIndex].busAddress),
                  devInfo |-> infos[devIndex]]))

\* getIvshmemDevices, root package (guest_windows.go)
GetIvshmemDevicesSkipping(infos) ==
    LET Reads(info) == EntryError("root", info) = "none"
    IN CollectDevices("root", SelectSeq(infos, Reads), 1, <<>>)
GetIvshmemDevices(infos) == CollectDevices("root", infos, 1, <<>>)

\* getIvshmemDevices, package guest (guest/common.go)
GetIvshmemDevicesPackage(infos) == CollectDevices("package", infos, 1, <<>>)

\* the OS calls of the enumeration, and the destruction of the device-info set
WinEnumCalls ==
    <<"SetupDiGetClassDevsEx", "SetupDiEnumDeviceInfo", "SetupDiGetDeviceRegistryProperty">>

NoDestroy == <<>>
Destroy == <<"SetupDiDestroyDeviceInfoList">>

\* ListDevices, root package, once SetupDiGetClassDevsEx returned a set: the
\* deferred SetupDiDestroyDeviceInfoList runs on every return
WinListDevicesOf(infos) ==
    LET ivshmemDevices == GetIvshmemDevices(infos) IN
    IF ivshmemDevices.err # "none"
    THEN [err |-> "get ivshmem devs", devices |-> <<>>, list |-> <<>>,
          calls |-> WinEnumCalls \o Destroy]
    ELSE [err |-> "none", devices |-> ivshmemDevices.devices,
          list |-> [i \in 1..Len(ivshmemDevices.devices) |-> ivshmemDevices.devices[i].loc],
          calls |-> WinEnumCalls \o Destroy]

\* ListDevices, root package
WinListDevicesWith(fault, infos) ==
    IF fault = "device info set"
    THEN [err |-> fault, devices |-> <<>>, list |-> <<>>,
          calls |-> <<"SetupDiGetClassDevsEx">>]
    ELSE WinListDevicesOf(infos)

\* ListDevices, package guest: the set is destroyed by hand after a
\* successful enumeration, and a failing destruction is returned as the error
WinPackageListDevicesWith(fault, infos) ==
    IF fault = "device info set"
    THEN [err |-> fault, devices |-> <<>>, calls |-> <<"SetupDiGetClassDevsEx">>]
    ELSE LET ivshmemDevices == GetIvshmemDevicesPackage(infos) IN
         IF ivshmemDevices.err # "none"
         THEN [err |-> "get ivshmem devs", devices |-> <<>>, calls |-> WinEnumCalls]
         ELSE IF fault = "destroy device info list"
         THEN [err |-> fault, devices |-> <<>>, calls |-> WinEnumCalls \o Destroy]
         ELSE [err |-> "none", devices |-> ivshmemDevices.devices,
               calls |-> WinEnumCalls \o Destroy]

\* ------------------------------------------------------------------------
\* Two successive ListDevices calls on one device topology
\* ------------------------------------------------------------------------
MaxDevs == 3   \* most entries the operating system enumerates

SysfsName(dom, b, d, f) ==
    BuildName("ok", dom, HexText(b, "%02x"), HexText(d, "%02x"), HexDigits(f, LowerHex))

\* the vendor or device file of a directory entry
File(data) == [ok |-> TRUE, data |-> data]
Unreadable == [ok |-> FALSE, data |-> <<>>]

\* a directory entry of PCI_PATH: what the program reads of it, and what the
\* entry is: kept tells a PCI device directory with the IVSHMEM ids, faulty
\* one whose ids cannot be read, at the location its name spells
DirEntry(name, vendor, device, kept, faulty, at) ==
    [name |-> name, vendor |-> vendor, device |-> device,
     kept |-> kept, faulty |-> faulty, at |-> at]

\* sysfs ends the id files with a newline
Ivshmem(dom, b, d, f) ==
    DirEntry(SysfsName(dom, b, d, f), File(IVSHMEM_VENDOR \o <<"\n">>),
             File(IVSHMEM_DEVICE \o <<"\n">>), TRUE, FALSE, PCILocation(b, d, f))

Dom0 == <<"0", "0", "0", "0">>
Dom1 == <<"0", "0", "0", "1">>
IntelVendor == <<"0", "x", "8", "0", "8", "6", "\n">>
VirtioNetDevice == <<"0", "x", "1", "0", "0", "0", "\n">>

DirPool ==
    {Ivshmem(Dom0, 0, 4, 0), Ivshmem(Dom0, 0, 3, 1), Ivshmem(Dom0, 1, 0, 0),
     Ivshmem(Dom1, 0, 4, 0),
     \* another vendor: the device file is not read
     DirEntry(SysfsName(Dom0, 0, 2, 0), File(IntelVendor), Unreadable,
              FALSE, FALSE, NoLocation),
     \* the vendor id alone, the device id alone
     DirEntry(SysfsName(Dom0, 0, 5, 0), File(IVSHMEM_VENDOR \o <<"\n">>),
              File(VirtioNetDevice), FALSE, FALSE, NoLocation),
     DirEntry(SysfsName(Dom0, 0, 7, 0), File(IntelVendor),
              File(IVSHMEM_DEVICE \o <<"\n">>), FALSE, FALSE, NoLocation),
     \* the ids of IVSHMEM under a name that spells no location
     DirEntry(<<"0", "0", "0", "0", ":", "z", "z", ":", "0", "4", ".", "0">>,
              File(<<" ">> \o IVSHMEM_VENDOR), File(IVSHMEM_DEVICE),
              TRUE, FALSE, NoLocation),
     \* no PCI device directory: its files are not read
     DirEntry(<<"p", "c", "i", "0", ":", "0">>, Unreadable, Unreadable,
              FALSE, FALSE, NoLocation),
     \* PCI device directories whose vendor file, device file cannot be read
     DirEntry(SysfsName(Dom0, 0, 6, 0), Unreadable, Unreadable, FALSE, TRUE, NoLocation),
     DirEntry(SysfsName(Dom0, 0, 8, 0), File(IVSHMEM_VENDOR \o <<"\n">>), Unreadable,
              FALSE, TRUE, NoLocation)}

\* a device-info entry: the registry values the program reads of it
\* and the call on the entry that fails, if one does
FailingDevInfo(busNumber, busAddress, location, fails) ==
    [busNumber |-> busNumber, busAddress |-> busAddress, location |-> location,
     fails |-> fails]

DevInfo(busNumber, busAddress, location) ==
    FailingDevInfo(busNumber, busAddress, location, "none")

DevInfoPool ==
    {DevInfo(0, 30, LocationString(PCILocation(0, 3, 0))),
     DevInfo(0, 10, LocationString(PCILocation(0, 1, 0))),
     DevInfo(0, 20, LocationString(PCILocation(0, 2, 0))),
     DevInfo(0, MaxReg, LocationString(PCILocation(0, 9, 7))),
     DevInfo(1, 0, LocationString(PCILocation(1, 0, 0))),
     DevInfo(1, 10, LocationString(PCILocation(1, 1, 0))),
     DevInfo(MaxReg, 0, LocationString(PCILocation(9, 0, 0))),
     DevInfo(2, 0, <<"u", "n", "k", "n", "o", "w", "n">>)}

Topologies(pool) == {t \in SUBSET pool : Cardinality(t) <= MaxDevs}

\* the orders in which the operating system may yield the entries
Orders(t) ==
    {o \in [1..Cardinality(t) -> t] : \A i, j \in 1..Cardinality(t) : o[i] = o[j] => i = j}

InitEnum ==
    /\ LifecycleInit
    /\ shmSize = 0
    /\ codec = Idle
    /\ ctor = Idle
    /\ \E fn \in {"linux", "windows"} :
       \E t \in Topologies(IF fn = "linux" THEN DirPool ELSE DevInfoPool) :
          enum = [fn |-> fn, topology |-> t, order |-> <<>>, reordered |-> FALSE,
                  out |-> <<>>]

\* the next ListDevices call, Linux: os.ReadDir yields the entries in some
\* order; the state keeps the order of the latest call and whether the second
\* call saw another order than the first
LinuxListDevices ==
    /\ enum.fn = "linux"
    /\ Len(enum.out) < 2
    /\ \E entry \in Orders(enum.topology) :
          enum' = [enum EXCEPT
                     !.order = entry,
                     !.reordered = (Len(enum.out) = 1 /\ entry # enum.order),
                     !.out = Append(@, LinuxListDevicesOf(entry))]
    /\ UNCHANGED <<lifecycleVars, codec, ctor>>

\* the next ListDevices call, Windows
WinListDevices ==
    /\ enum.fn = "windows"
    /\ Len(enum.out) < 2
    /\ \E infos \in Orders(enum.topology) :
          enum' = [enum EXCEPT
                     !.order = infos,
                     !.reordered = (Len(enum.out) = 1 /\ infos # enum.order),
                     !.out = Append(@, WinListDevicesOf(infos))]
    /\ UNCHANGED <<lifecycleVars, codec, ctor>>

NextEnum == LinuxListDevices \/ WinListDevices

SpecEnum == InitEnum /\ [][NextEnum]_vars

\* lexicographic order on pairs and triples of numbers
RECURSIVE LexLeq(_, _)
LexLeq(a, b) ==
    IF a = <<>> THEN TRUE
    ELSE a[1] < b[1] \/ (a[1] = b[1] /\ LexLeq(Tail(a), Tail(b)))

\* how often x occurs in the sequence s
Count(s, x) == Cardinality({i \in 1..Len(s) : s[i] = x})

\* C18: for every order in which the entries are yielded, getIvshmemDevices
\* returns the same devices, ascending by busNumber<<32 | busAddress, which is
\* the lexicographic order on (busNumber, busAddress), and ListDevices returns
\* their locations in that order.
C18_WinOrdering ==
    (enum.fn = "windows" /\ Len(enum.out) >= 1) =>
        \A k \in 1..Len(enum.out) :
            LET r == enum.out[k] IN
            r.err = "none" =>
                /\ Len(r.devices) = Cardinality(enum.topology)
                /\ \A t \in enum.topology :
                       \E i \in 1..Len(r.devices) : r.devices[i].devInfo = t
                /\ \A i \in 1..Len(r.devices) : \A j \in i..Len(r.devices) :
                       /\ r.devices[i].busAddr <= r.devices[j].busAddr
                       /\ LexLeq(<<r.devices[i].devInfo.busNumber,
                                   r.devices[i].devInfo.busAddress>>,
                                 <<r.devices[j].devInfo.busNumber,
                                   r.devices[j].devInfo.busAddress>>)
                /\ Len(r.list) = Len(r.devices)
                /\ \A i \in 1..Len(r.list) : r.list[i] = r.devices[i].loc

\* raw sort keys [30, 10, 20] on bus 0 come back as [10, 20, 30]
C18_Witness ==
    /\ enum.fn = "windows" /\ Len(enum.out) = 1
    /\ Len(enum.order) = 3
    /\ \A i \in 1..3 : enum.order[i].busNumber = 0
    /\ <<enum.order[1].busAddress, enum.order[2].busAddress, enum.order[3].busAddress>>
         = <<30, 10, 20>>
    /\ enum.out[1].err = "none"
    /\ [i \in 1..3 |-> enum.out[1].devices[i].busAddr] = <<10, 20, 30>>
    /\ enum.out[1].list = <<PCILocation(0, 1, 0), PCILocation(0, 2, 0), PCILocation(0, 3, 0)>>

\* C19: the list ListDevices returns on Linux is a permutation of the parsed
\* locations of the kept devices, and is non-decreasing in the lexicographic
\* order on (bus, device, function), whatever the order of the entries read.
C19_LinuxOrdering ==
    (enum.fn = "linux" /\ Len(enum.out) >= 1) =>
        \A k \in 1..Len(enum.out) :
            LET r == enum.out[k]
                parsed == {t \in enum.topology : t.kept /\ t.at # NoLocation}
            IN r.err = "none" =>
                /\ Len(r.list) = Cardinality(parsed)
                /\ \A t \in parsed :
                       Count(r.list, t.at) = Cardinality({u \in parsed : u.at = t.at})
                /\ \A i \in 1..Len(r.list) : \A j \in i..Len(r.list) :
                       LexLeq(<<r.list[i].bus, r.list[i].device, r.list[i].function>>,
                              <<r.list[j].bus, r.list[j].device, r.list[j].function>>)

\* three kept devices read in descending order, one entry skipped
C19_Witness ==
    /\ enum.fn = "linux" /\ Len(enum.out) = 1
    /\ Len(enum.order) = 3
    /\ enum.order[1].at = PCILocation(1, 0, 0)
    /\ enum.order[2].at = PCILocation(0, 4, 0)
    /\ enum.order[3].at = PCILocation(0, 3, 1)
    /\ enum.out[1] = [err |-> "none",
                      list |-> <<PCILocation(0, 3, 1), PCILocation(0, 4, 0),
                                 PCILocation(1, 0, 0)>>]

\* C20: two successive ListDevices calls on an unchanged topology return equal
\* lists in the same order (or fail alike), even when the entries are yielded
\* in another order on the second call.
C20_ListDevicesIdempotent ==
    Len(enum.out) = 2 =>
        /\ enum.out[1].err = enum.out[2].err
        /\ enum.out[1].list = enum.out[2].list

C20_Witness ==
    /\ Len(enum.out) = 2
    /\ enum.reordered
    /\ enum.out[1].err = "none"
    /\ Len(enum.out[1].list) = 3
    /\ enum.out[2] = enum.out[1]

\* ------------------------------------------------------------------------
\* Constructors: New, NewGuest, NewHost
\* ------------------------------------------------------------------------
\* what a constructor call returns: the error ("none" for nil), the sentinel
\* errors.Is finds in it, whether the call panicked instead of returning,
\* whether an endpoint was returned, the endpoint, and the OS calls made
NilEndpoint == [nil |-> TRUE]

CtorFail(err, is, calls) ==
    [err |-> err, is |-> is, panicked |-> FALSE, made |-> FALSE,
     endpoint |-> NilEndpoint, calls |-> calls]

CtorPanic(calls) ==
    [err |-> "none", is |-> "none", panicked |-> TRUE, made |-> FALSE,
     endpoint |-> NilEndpoint, calls |-> calls]

CtorOK(endpoint, calls) ==
    [err |-> "none", is |-> "none", panicked |-> FALSE, made |-> TRUE,
     endpoint |-> endpoint, calls |-> calls]

\* the zero value of the endpoint structs
ZeroEndpoint ==
    [devPath |-> <<>>, mapped |-> FALSE, sharedMem |-> NoMap, size |-> 0,
     devHandle |-> "none"]

\* &Host{shmPath: shmPath}
HostLiteralMapped(shmPath) ==
    [ZeroEndpoint EXCEPT !.devPath = shmPath, !.mapped = TRUE, !.size = 1]
HostLiteral(shmPath) == [ZeroEndpoint EXCEPT !.devPath = shmPath]

\* &Guest{loc: location, devPath: path}
LinuxGuestLiteral(path) == [ZeroEndpoint EXCEPT !.devPath = path]

\* &Guest{devHandle: *handle, devPath: path, devData: ...}
WinGuestLiteral(handle, path) ==
    [ZeroEndpoint EXCEPT !.devPath = path, !.devHandle = handle]

\* NewHost(shmPath): os.Stat, then the struct
NewHostOf(statOK, shmPath) ==
    IF ~statOK THEN CtorFail("stat file", "none", <<"os.Stat">>)
    ELSE CtorOK(HostLiteral(shmPath), <<"os.Stat">>)

\* the index the search loops of New and NewGuest end with: the last match
LastIndex(locs, location) ==
    LET hits == {i \in 1..Len(locs) : locs[i] = location}
    IN IF hits = {} THEN 0 ELSE CHOOSE i \in hits : \A j \in hits : j <= i

\* New(location), Linux
LinuxNewOf(entry, location) ==
    LET devices == ListIvshmemPCIRaw(entry)
        calls == <<"os.ReadDir", "os.ReadFile">>
    IN IF devices.err # "none" THEN CtorFail("get raw devices", "none", calls)
       ELSE IF \E i \in 1..Len(devices.names) :
                   SysfsConvertLocation(devices.names[i]).err # "none"
       THEN CtorFail("convert location", "none", calls)
       ELSE LET locs == [i \in 1..Len(devices.names) |->
                            SysfsConvertLocation(devices.names[i]).loc]
                idx == LastIndex(locs, location)
            IN IF idx = 0
               THEN CtorFail("cannot find device", "ErrCannotFindDevice", calls)
               ELSE CtorOK(LinuxGuestLiteral(devices.names[idx]), calls)

\* setupDiCall: the errno of a SetupAPI call that returned r1 = 0 (EINVAL when
\* the thread's last error is clear), and 0 for a call that returned non-zero
SetupDiCall(r) ==
    IF ~r.ok
    THEN IF r.errno # "ERROR_SUCCESS" THEN r.errno ELSE "EINVAL"
    ELSE "ERROR_SUCCESS"

Succeeds == [ok |-> TRUE, errno |-> "ERROR_SUCCESS"]
FailsWith(errno) == [ok |-> FALSE, errno |-> errno]

\* the zero-buffer detail query is a size probe: success and
\* ERROR_INSUFFICIENT_BUFFER both let establishHandle go on
ProbeProceedsOnlyOnSuccess(errno) == errno = "ERROR_SUCCESS"
ProbeProceeds(errno) == ~(errno # "ERROR_SUCCESS" /\ errno # "ERROR_INSUFFICIENT_BUFFER")

\* establishHandle: the device path and handle, or the step that failed
EstablishCalls ==
    <<"SetupDiEnumDeviceInterfaces", "SetupDiGetDeviceInterfaceDetailW",
      "SetupDiGetDeviceInterfaceDetailW", "CreateFile">>

HandleError(err, is, calls) ==
    [err |-> err, is |-> is, handle |-> FALSE, calls |-> calls]

\* os: what each operating-system call of establishHandle answers
EstablishHandleSteps(os) ==
    IF SetupDiCall(os.enum) # "ERROR_SUCCESS"
    THEN HandleError("enum device interfaces", "none", SubSeq(EstablishCalls, 1, 1))
    ELSE IF ~ProbeProceeds(SetupDiCall(os.getsize))
    THEN HandleError("device interface getsize", "none", SubSeq(EstablishCalls, 1, 2))
    ELSE IF os.reqSize \div 2 = 0
    THEN [err |-> "panic", is |-> "index out of range", handle |-> FALSE,
          calls |-> SubSeq(EstablishCalls, 1, 2)]
    ELSE IF SetupDiCall(os.detail) # "ERROR_SUCCESS"
    THEN HandleError("device interface detail", "none", SubSeq(EstablishCalls, 1, 3))
    ELSE IF os.reqSize \div 2 < 3
    THEN [err |-> "panic", is |-> "out of range", handle |-> FALSE,
          calls |-> SubSeq(EstablishCalls, 1, 3)]
    ELSE IF os.create = "error"
    THEN HandleError("create file", "none", EstablishCalls)
    ELSE IF os.create = "InvalidHandle"
    THEN HandleError("invalid handle", "ErrInvalidHandle", EstablishCalls)
    ELSE [err |-> "none", is |-> "none", handle |-> TRUE, calls |-> EstablishCalls]

\* bytes the size probe asks for: the header and a device path of at least
\* one character, as SetupDiGetDeviceInterfaceDetailW reports them
ReqSizes == {8, 96}

\* the operating system's answers that make establishHandle fail at `fault`
OsAnswers(fault) ==
    [enum    |-> IF fault = "enum device interfaces"
                 THEN FailsWith("ERROR_NO_MORE_ITEMS") ELSE Succeeds,
     getsize |-> IF fault = "device interface getsize"
                 THEN FailsWith("ERROR_INVALID_PARAMETER")
                 ELSE FailsWith("ERROR_INSUFFICIENT_BUFFER"),
     reqSize |-> 96,
     detail  |-> IF fault = "device interface detail"
                 THEN FailsWith("ERROR_INVALID_PARAMETER") ELSE Succeeds,
     create  |-> IF fault = "create file" THEN "error"
                 ELSE IF fault = "invalid handle" THEN "InvalidHandle"
                 ELSE "handle"]

EstablishHandle(fault, device) == EstablishHandleSteps(OsAnswers(fault))

\* NewGuest(location), root package (guest_windows.go): the device-info set
\* is destroyed by a deferred call on every path after it was obtained
WinNewGuestOf(fault, infos, location) ==
    IF fault = "device info set"
    THEN CtorFail("device info set", "none", <<"SetupDiGetClassDevsEx">>)
    ELSE LET ivshmemDevices == GetIvshmemDevices(infos) IN
         IF ivshmemDevices.err # "none"
         THEN CtorFail("get ivshmem devs", "none", WinEnumCalls \o Destroy)
         ELSE LET devs == ivshmemDevices.devices
                  idx == LastIndex([i \in 1..Len(devs) |-> devs[i].loc], location)
              IN IF idx = 0
                 THEN CtorFail("cannot find device", "ErrCannotFindDevice",
                               WinEnumCalls \o Destroy)
                 ELSE LET h == EstablishHandle(fault, devs[idx]) IN
                      IF h.err # "none"
                      THEN CtorFail("establish handle", h.is,
                                    WinEnumCalls \o h.calls \o Destroy)
                      ELSE CtorOK(WinGuestLiteral("open", devs[idx].devInfo),
                                  WinEnumCalls \o h.calls \o Destroy)

\* New(location), package guest (guest/common.go): the device-info set is
\* destroyed by hand, on the not-found path and on the success path
WinPackageNewOf(fault, infos, location) ==
    IF fault = "device info set"
    THEN CtorFail("device info set", "none", <<"SetupDiGetClassDevsEx">>)
    ELSE LET ivshmemDevices == GetIvshmemDevicesPackage(infos) IN
         IF ivshmemDevices.err # "none"
         THEN CtorFail("get ivshmem devs", "none", WinEnumCalls)
         ELSE LET devs == ivshmemDevices.devices
                  idx == LastIndex([i \in 1..Len(devs) |-> devs[i].loc], location)
              IN IF idx = 0
                 THEN IF fault = "destroy device info list"
                      THEN CtorFail(fault, "none", WinEnumCalls \o Destroy)
                      ELSE CtorFail("find device", "none", WinEnumCalls \o Destroy)
                 ELSE LET h == EstablishHandle(fault, devs[idx]) IN
                      IF h.err # "none"
                      THEN CtorFail("establish handle", h.is, WinEnumCalls \o h.calls)
                      ELSE IF fault = "destroy device info list"
                      THEN CtorFail(fault, "none", WinEnumCalls \o h.calls \o Destroy)
                      ELSE CtorOK(WinGuestLiteral("open", devs[idx].devInfo),
                                  WinEnumCalls \o h.calls \o Destroy)

\* getIvshmemDevices of the index-selecting variant: no location is read
GetIvshmemDevicesByKey(infos) ==
    SortSlice([i \in 1..Len(infos) |->
                  [busAddr |-> WinSortKey(infos[i].busNumber, infos[i].busAddress),
                   devInfo |-> infos[i]]], "windows")

\* the test NewGuest(devIndex) makes before it indexes the device list
\* (Go indexes from 0: devIndex selects element devIndex + 1 here)
IndexRejected(devIndex, length) == devIndex >= length

\* NewGuest(devIndex), the index-selecting variant: indexing outside the
\* list is a run-time panic
WinNewGuestByIndexOf(fault, infos, devIndex) ==
    IF fault = "device info set"
    THEN CtorFail("device info set", "none", <<"SetupDiGetClassDevsEx">>)
    ELSE LET ivshmemDevices == GetIvshmemDevicesByKey(infos) IN
         IF IndexRejected(devIndex, Len(ivshmemDevices))
         THEN CtorFail("invalid device index", "none", WinEnumCalls \o Destroy)
         ELSE IF devIndex + 1 \notin 1..Len(ivshmemDevices)
         THEN CtorPanic(WinEnumCalls \o Destroy)
         ELSE LET h == EstablishHandle(fault, ivshmemDevices[devIndex + 1]) IN
              IF h.err # "none"
              THEN CtorFail("establish handle", h.is, WinEnumCalls \o h.calls \o Destroy)
              ELSE CtorOK(WinGuestLiteral("open", ivshmemDevices[devIndex + 1].devInfo),
                          WinEnumCalls \o h.calls \o Destroy)

\* ------------------------------------------------------------------------
\* One constructor call on one device topology
\* ------------------------------------------------------------------------
CtorDirPool ==
    {e \in DirPool : e.at \in {PCILocation(0, 4, 0), PCILocation(1, 0, 0)}
                     \/ (e.kept /\ e.at = NoLocation) \/ e.faulty}

CtorDevInfoPool ==
    {d \in DevInfoPool : d.busAddress \in {10, 20} \/ d.busNumber = 2}

Locations == {PCILocation(0, 4, 0), PCILocation(0, 1, 0), PCILocation(1, 1, 0)}

Faults ==
    {"none", "device info set", "enum device interfaces", "device interface getsize",
     "device interface detail", "create file", "invalid handle",
     "destroy device info list"}

ShmPaths == {<<"/", "d", "e", "v", "/", "s", "h", "m", "/", "a">>, <<>>}

CtorCall(fn, topology, order, fault, arg) ==
    [fn |-> fn, topology |-> topology, order |-> order, fault |-> fault, arg |-> arg,
     done |-> FALSE, out |-> CtorFail("pending", "none", <<>>)]

InitNew ==
    /\ LifecycleInit
    /\ shmSize = 0
    /\ codec = Idle
    /\ enum = Idle
    /\ \/ \E t \in Topologies(CtorDirPool), location \in Locations :
          \E entry \in Orders(t) :
             ctor = CtorCall("New (linux)", t, entry, "none", location)
       \/ \E fn \in {"NewGuest (location)", "New (windows)"} :
          \E t \in Topologies(CtorDevInfoPool), location \in Locations, fault \in Faults :
          \E infos \in Orders(t) :
             ctor = CtorCall(fn, t, infos, fault, location)
       \/ \E t \in Topologies(CtorDevInfoPool), fault \in Faults,
             devIndex \in (0 - 2)..(MaxDevs + 1) :
          \E infos \in Orders(t) :
             ctor = CtorCall("NewGuest (index)", t, infos, fault, devIndex)
       \/ \E statOK \in BOOLEAN, shmPath \in ShmPaths :
             ctor = CtorCall("NewHost", {}, <<>>, IF statOK THEN "none" ELSE "stat file",
                             shmPath)

Returns(fn, out) ==
    /\ ctor.fn = fn
    /\ ~ctor.done
    /\ ctor' = [ctor EXCEPT !.done = TRUE, !.out = out]
    /\ UNCHANGED <<lifecycleVars, codec, enum>>

LinuxNew == Returns("New (linux)", LinuxNewOf(ctor.order, ctor.arg))
WinNewGuest == Returns("NewGuest (location)", WinNewGuestOf(ctor.fault, ctor.order, ctor.arg))
WinPackageNew == Returns("New (windows)", WinPackageNewOf(ctor.fault, ctor.order, ctor.arg))
WinNewGuestByIndex ==
    Returns("NewGuest (index)", WinNewGuestByIndexOf(ctor.fault, ctor.order, ctor.arg))
NewHost == Returns("NewHost", NewHostOf(ctor.fault = "none", ctor.arg))

NextNew == LinuxNew \/ WinNewGuest \/ WinPackageNew \/ WinNewGuestByIndex \/ NewHost

SpecNew == InitNew /\ [][NextNew]_vars

\* the OS calls that create a mapping
MappingCalls == {"mmap", "DeviceIoControl(ioctlIvshmemRequestMmap)"}

\* C11: creating an endpoint never maps: whatever New, NewGuest or NewHost
\* stat, enumerate or open, the endpoint they return has mapped = false,
\* size = 0 and an empty region, and no mmap or map-request ioctl was issued.
C11_ConstructorsDoNotMap ==
    ctor.done =>
        /\ \A i \in 1..Len(ctor.out.calls) : ctor.out.calls[i] \notin MappingCalls
        /\ ctor.out.made =>
              /\ ctor.out.endpoint.mapped = FALSE
              /\ ctor.out.endpoint.size = 0
              /\ ctor.out.endpoint.sharedMem = NoMap

\* NewHost on an existing object returned a Host
C11_Witness ==
    /\ ctor.fn = "NewHost" /\ ctor.done
    /\ ctor.out.made
    /\ ctor.out.endpoint.devPath = ctor.arg /\ ctor.arg # <<>>
    /\ ctor.out.calls = <<"os.Stat">>
    /\ ~ctor.out.endpoint.mapped

\* the locations of the devices the enumeration of a constructor call yields
EnumeratedLocations ==
    IF ctor.fn = "New (linux)"
    THEN {SysfsConvertLocation(n).loc :
             n \in {ListIvshmemPCIRaw(ctor.order).names[i] :
                       i \in 1..Len(ListIvshmemPCIRaw(ctor.order).names)}}
    ELSE {WinConvertLocation(d.location).loc : d \in ctor.topology}

\* the enumeration yields the devices with their locations: every vendor and
\* device file is read and every location converts
EnumerationSucceeds ==
    IF ctor.fn = "New (linux)"
    THEN /\ ListIvshmemPCIRaw(ctor.order).err = "none"
         /\ \A i \in 1..Len(ListIvshmemPCIRaw(ctor.order).names) :
                SysfsConvertLocation(ListIvshmemPCIRaw(ctor.order).names[i]).err = "none"
    ELSE ctor.fault # "device info set" /\ GetIvshmemDevices(ctor.order).err = "none"

\* C12: in every variant that resolves by location, when the enumeration
\* succeeds and no enumerated device has the requested location, the
\* constructor returns no endpoint and an error that is ErrCannotFindDevice.
C12_NotFoundIsErrCannotFindDevice ==
    (/\ ctor.fn \in {"New (linux)", "NewGuest (location)", "New (windows)"}
     /\ ctor.done
     /\ EnumerationSucceeds
     /\ ctor.arg \notin EnumeratedLocations)
    => (~ctor.out.made /\ ctor.out.is = "ErrCannotFindDevice")

\* C13: NewGuest(devIndex) of the index-selecting variant returns an error and
\* does not panic for every devIndex that is no valid index of the enumerated
\* list, negative values and devIndex = len(list) included.
C13_InvalidIndexIsAnError ==
    (/\ ctor.fn = "NewGuest (index)"
     /\ ctor.done
     /\ ctor.fault # "device info set"
     /\ ctor.arg \notin 0..(Cardinality(ctor.topology) - 1))
    => (~ctor.out.panicked /\ ~ctor.out.made /\ ctor.out.err # "none")

\* C21: when the vendor or device id file of some candidate directory cannot
\* be read, Linux ListDevices does not fail: the candidate is left out and
\* every other IVSHMEM device is still returned.
C21_UnreadableIdsAreSkipped ==
    (enum.fn = "linux" /\ Len(enum.out) >= 1) =>
        \A k \in 1..Len(enum.out) :
            (\E t \in enum.topology : t.faulty) =>
                /\ enum.out[k].err = "none"
                /\ \A t \in enum.topology :
                       (t.kept /\ t.at # NoLocation) => Count(enum.out[k].list, t.at) >= 1

\* C22: whenever the id files are readable, Linux ListDevices returns a nil
\* error and the locations of exactly the kept names that parse; a kept name
\* that does not parse is dropped and is no error.
C22_ParseFailuresAreDropped ==
    (enum.fn = "linux" /\ Len(enum.out) >= 1) =>
        \A k \in 1..Len(enum.out) :
            LET r == enum.out[k]
                parsed == {t \in enum.topology : t.kept /\ t.at # NoLocation}
            IN (\A t \in enum.topology : ~t.faulty) =>
                /\ r.err = "none"
                /\ Len(r.list) = Cardinality(parsed)
                /\ \A i \in 1..Len(r.list) : \E t \in parsed : r.list[i] = t.at
                /\ \A t \in parsed : Count(r.list, t.at) >= 1

\* a kept name that spells no location, read between two that do
C22_Witness ==
    /\ enum.fn = "linux" /\ Len(enum.out) = 1
    /\ Len(enum.order) = 3
    /\ enum.order[1].at = PCILocation(1, 0, 0)
    /\ enum.order[2].kept /\ enum.order[2].at = NoLocation
    /\ enum.order[3].at = PCILocation(0, 4, 0)
    /\ enum.out[1] = [err |-> "none",
                      list |-> <<PCILocation(0, 4, 0), PCILocation(1, 0, 0)>>]

\* ------------------------------------------------------------------------
\* One listIvshmemPCIRaw call on one directory
\* ------------------------------------------------------------------------
IvshmemIds(name, kept) ==
    DirEntry(name, File(IVSHMEM_VENDOR \o <<"\n">>), File(IVSHMEM_DEVICE \o <<"\n">>),
             kept, FALSE, NoLocation)

FilterPool ==
    DirPool \cup
    {\* the IVSHMEM ids under names that fail one half of the name test
     IvshmemIds(<<"0", "0", "0", "0", "-", "0", "0", ":", "0", "4", ".", "0">>, FALSE),
     IvshmemIds(<<"0", "0", "0", "0", ":", "0", "0", ":", "0", "4", ":", "0">>, FALSE),
     IvshmemIds(<<"0", "0", "0", "0", ":", "0", "0", ":", "0", "4", ".", "1", "0">>, FALSE),
     \* white space around the ids
     DirEntry(SysfsName(Dom0, 0, 9, 0), File(<<"\t">> \o IVSHMEM_VENDOR \o <<" ", "\n">>),
              File(<<" ">> \o IVSHMEM_DEVICE \o <<"\r", "\n">>), TRUE, FALSE,
              PCILocation(0, 9, 0)),
     \* ids that differ in case, or by white space inside
     DirEntry(SysfsName(Dom0, 0, 10, 0), File(<<"0", "x", "1", "A", "F", "4", "\n">>),
              File(IVSHMEM_DEVICE \o <<"\n">>), FALSE, FALSE, NoLocation),
     DirEntry(SysfsName(Dom0, 0, 11, 0), File(IVSHMEM_VENDOR \o <<"\n">>),
              File(<<"0", "x", " ", "1", "1", "1", "0">>), FALSE, FALSE, NoLocation)}

InitFilter ==
    /\ LifecycleInit
    /\ shmSize = 0
    /\ codec = Idle
    /\ ctor = Idle
    /\ \E t \in Topologies(FilterPool) :
          enum = [fn |-> "listIvshmemPCIRaw", topology |-> t, order |-> <<>>,
                  done |-> FALSE, out |-> [err |-> "pending", names |-> <<>>]]

\* one call: os.ReadDir yields the entries in some order
ListRaw ==
    /\ enum.fn = "listIvshmemPCIRaw"
    /\ ~enum.done
    /\ \E entry \in Orders(enum.topology) :
          enum' = [enum EXCEPT !.order = entry, !.done = TRUE,
                               !.out = ListIvshmemPCIRaw(entry)]
    /\ UNCHANGED <<lifecycleVars, codec, ctor>>

SpecFilter == InitFilter /\ [][ListRaw]_vars

\* C28: listIvshmemPCIRaw keeps a directory entry if and only if its name is
\* 12 characters long and splits on ':' into exactly 3 parts, its trimmed
\* vendor file is "0x1af4" and its trimmed device file is "0x1110"; an entry
\* with only one of the ids is never returned; kept entries keep the
\* directory order.
C28_FilterExact ==
    (enum.fn = "listIvshmemPCIRaw" /\ enum.done /\ enum.out.err = "none") =>
        LET IsKept(e) == e.kept
            kept == SelectSeq(enum.order, IsKept)
        IN enum.out.names = [i \in 1..Len(kept) |-> kept[i].name]

\* two kept entries around one with the vendor id alone, in directory order
C28_Witness ==
    /\ enum.fn = "listIvshmemPCIRaw" /\ enum.done
    /\ Len(enum.order) = 3
    /\ enum.order[1].at = PCILocation(0, 9, 0)
    /\ TrimSpace(enum.order[2].vendor.data) = IVSHMEM_VENDOR /\ ~enum.order[2].kept
    /\ enum.order[2].device.ok
    /\ enum.order[3].at = PCILocation(0, 4, 0)
    /\ enum.out = [err |-> "none", names |-> <<enum.order[1].name, enum.order[3].name>>]

\* ------------------------------------------------------------------------
\* One getIvshmemDevices call on one device-info set
\* ------------------------------------------------------------------------
EntryFailures == {"device information", "bus number", "bus address", "desc", "location"}

FailingPool ==
    {d \in DevInfoPool : d.busAddress \in {10, 20}} \cup
    {FailingDevInfo(3, 0, LocationString(PCILocation(3, 0, 0)), fails) :
        fails \in EntryFailures}
    \cup {d \in DevInfoPool : d.busNumber = 2}

InitWinEnum ==
    /\ LifecycleInit
    /\ shmSize = 0
    /\ codec = Idle
    /\ ctor = Idle
    /\ \E variant \in {"root", "package"}, t \in Topologies(FailingPool) :
          enum = [fn |-> "getIvshmemDevices", variant |-> variant, topology |-> t,
                  order |-> <<>>, done |-> FALSE,
                  out |-> [err |-> "pending", devices |-> <<>>]]

\* getIvshmemDevices of the root package, on any order of enumeration
GetDevicesRoot ==
    /\ enum.fn = "getIvshmemDevices"
    /\ enum.variant = "root"
    /\ ~enum.done
    /\ \E infos \in Orders(enum.topology) :
          enum' = [enum EXCEPT !.order = infos, !.done = TRUE,
                               !.out = GetIvshmemDevices(infos)]
    /\ UNCHANGED <<lifecycleVars, codec, ctor>>

\* getIvshmemDevices of package guest
GetDevicesPackage ==
    /\ enum.fn = "getIvshmemDevices"
    /\ enum.variant = "package"
    /\ ~enum.done
    /\ \E infos \in Orders(enum.topology) :
          enum' = [enum EXCEPT !.order = infos, !.done = TRUE,
                               !.out = GetIvshmemDevicesPackage(infos)]
    /\ UNCHANGED <<lifecycleVars, codec, ctor>>

NextWinEnum == GetDevicesRoot \/ GetDevicesPackage

SpecWinEnum == InitWinEnum /\ [][NextWinEnum]_vars

\* the entry makes a call of the loop body fail
EntryFails(variant, info) ==
    \/ info.fails \in {"device information", "bus number", "bus address", "location"}
    \/ (variant = "package" /\ info.fails = "desc")
    \/ Len(Fields(info.location)) # 7

\* C23: if reading the bus number, bus address or location of any entry
\* fails, or its location text does not decode, getIvshmemDevices returns an
\* error and no device list, never a partial one; otherwise the iteration
\* ends at no-more-items with every entry in the list.
C23_WinEnumerationAllOrNothing ==
    (enum.fn = "getIvshmemDevices" /\ enum.done) =>
        IF \E i \in 1..Len(enum.order) : EntryFails(enum.variant, enum.order[i])
        THEN enum.out.err # "none" /\ enum.out.devices = <<>>
        ELSE enum.out.err = "none" /\ Len(enum.out.devices) = Len(enum.order)

\* two good entries were read before the bus address of the third failed
C23_Witness ==
    /\ enum.fn = "getIvshmemDevices" /\ enum.done
    /\ Len(enum.order) = 3
    /\ enum.order[1].fails = "none" /\ enum.order[2].fails = "none"
    /\ enum.order[1].busNumber = 0 /\ enum.order[2].busNumber = 0
    /\ enum.order[3].fails = "bus address"
    /\ enum.out = [err |-> "bus address", devices |-> <<>>]

\* ------------------------------------------------------------------------
\* Lifetime of the device-info set in the Windows backends
\* ------------------------------------------------------------------------
ListFaults == {"none", "device info set", "destroy device info list"}

InitSet ==
    /\ LifecycleInit
    /\ shmSize = 0
    /\ codec = Idle
    /\ enum = Idle
    /\ \E t \in Topologies(CtorDevInfoPool) :
       \E infos \in Orders(t) :
          \/ \E fn \in {"NewGuest (location)", "New (windows)"} :
             \E location \in Locations, fault \in Faults :
                ctor = CtorCall(fn, t, infos, fault, location)
          \/ \E fn \in {"ListDevices (root)", "ListDevices (package)"} :
             \E fault \in ListFaults :
                ctor = CtorCall(fn, t, infos, fault, <<>>)

WinListDevicesCall ==
    Returns("ListDevices (root)", WinListDevicesWith(ctor.fault, ctor.order))
WinPackageListDevicesCall ==
    Returns("ListDevices (package)", WinPackageListDevicesWith(ctor.fault, ctor.order))

NextSet == WinNewGuest \/ WinPackageNew \/ WinListDevicesCall \/ WinPackageListDevicesCall

SpecSet == InitSet /\ [][NextSet]_vars

Destructions == Count(ctor.out.calls, "SetupDiDestroyDeviceInfoList")

\* C24: in the root-package Windows backend the device-info set ListDevices
\* or NewGuest obtained is destroyed exactly once, as the last OS call before
\* the function returns, on every exit path: success, enumeration error,
\* device not found, establish-handle error.
C24_RootDestroysSetOnce ==
    (ctor.fn \in {"NewGuest (location)", "ListDevices (root)"} /\ ctor.done) =>
        IF ctor.fault = "device info set"
        THEN Destructions = 0
        ELSE /\ Destructions = 1
             /\ ctor.out.calls[Len(ctor.out.calls)] = "SetupDiDestroyDeviceInfoList"

\* NewGuest found the device and CreateFile failed: the set was destroyed
C24_Witness ==
    /\ ctor.fn = "NewGuest (location)" /\ ctor.done
    /\ ctor.fault = "create file"
    /\ ctor.out.err = "establish handle"
    /\ ctor.out.calls = WinEnumCalls \o EstablishCalls \o <<"SetupDiDestroyDeviceInfoList">>

\* C25: in the package-guest Windows backend the device-info set New or
\* ListDevices obtained is destroyed before the function returns on every exit
\* path, also when getIvshmemDevices fails and when establishHandle fails.
C25_PackageDestroysSet ==
    (/\ ctor.fn \in {"New (windows)", "ListDevices (package)"}
     /\ ctor.done
     /\ ctor.fault # "device info set")
    => Destructions >= 1

\* ------------------------------------------------------------------------
\* establishHandle against every answer of the operating system
\* ------------------------------------------------------------------------
SetupDiResults ==
    {Succeeds, FailsWith("ERROR_INSUFFICIENT_BUFFER"),
     FailsWith("ERROR_INVALID_PARAMETER"), FailsWith("ERROR_SUCCESS")}

CreateFileResults == {"handle", "error", "InvalidHandle"}

InitHandle ==
    /\ LifecycleInit
    /\ shmSize = 0
    /\ codec = Idle
    /\ enum = Idle
    /\ \E fn \in {"establishHandle (root)", "establishHandle (package)"} :
       \E e \in {Succeeds, FailsWith("ERROR_NO_MORE_ITEMS")} :
       \E g \in SetupDiResults, d \in SetupDiResults :
       \E n \in ReqSizes, c \in CreateFileResults :
          ctor = [fn |-> fn, done |-> FALSE, out |-> "pending",
                  os |-> [enum |-> e, getsize |-> g, reqSize |-> n,
                          detail |-> d, create |-> c]]

EstablishHandleRoot ==
    /\ ctor.fn = "establishHandle (root)"
    /\ Returns("establishHandle (root)", EstablishHandleSteps(ctor.os))

EstablishHandlePackage ==
    /\ ctor.fn = "establishHandle (package)"
    /\ Returns("establishHandle (package)", EstablishHandleSteps(ctor.os))

NextHandle == EstablishHandleRoot \/ EstablishHandlePackage

SpecHandle == InitHandle /\ [][NextHandle]_vars

DetailQueries == Count(ctor.out.calls, "SetupDiGetDeviceInterfaceDetailW")
FilesOpened == Count(ctor.out.calls, "CreateFile")
Established == ctor.fn \in {"establishHandle (root)", "establishHandle (package)"} /\ ctor.done
ProbeErrno == SetupDiCall(ctor.os.getsize)

\* C27: once the interface is enumerated, the zero-buffer detail query is
\* followed by the real-buffer query when it reports success or
\* ERROR_INSUFFICIENT_BUFFER; any other error code makes establishHandle
\* return an error without the second query and without opening a file; an
\* error of the second query or of the open returns an error and no handle.
C27_ProbeProtocol ==
    (Established /\ SetupDiCall(ctor.os.enum) = "ERROR_SUCCESS") =>
        /\ ProbeErrno \in {"ERROR_SUCCESS", "ERROR_INSUFFICIENT_BUFFER"}
              => DetailQueries = 2
        /\ ProbeErrno \notin {"ERROR_SUCCESS", "ERROR_INSUFFICIENT_BUFFER"}
              => /\ DetailQueries = 1
                 /\ FilesOpened = 0
                 /\ ctor.out.err = "device interface getsize"
                 /\ ~ctor.out.handle
        /\ (DetailQueries = 2 /\ SetupDiCall(ctor.os.detail) # "ERROR_SUCCESS")
              => /\ ctor.out.err = "device interface detail"
                 /\ FilesOpened = 0
                 /\ ~ctor.out.handle
        /\ (FilesOpened = 1 /\ ctor.os.create # "handle")
              => /\ ctor.out.err \in {"create file", "invalid handle"}
                 /\ ~ctor.out.handle

\* the probe answered ERROR_INSUFFICIENT_BUFFER and the handle was opened
C27_Witness ==
    /\ Established
    /\ ctor.os.getsize = FailsWith("ERROR_INSUFFICIENT_BUFFER")
    /\ ctor.out.err = "none"
    /\ ctor.out.handle
    /\ ctor.out.calls = EstablishCalls

\* ------------------------------------------------------------------------
\* Failure paths of Map and Unmap
\* ------------------------------------------------------------------------
MapOf(e) ==
    CASE e = "lguest" -> LinuxGuestMap
      [] e = "wguest" -> WinGuestMap
      [] OTHER -> HostMap

UnmapOf(e) ==
    CASE e = "lguest" -> LinuxGuestUnmap
      [] e = "wguest" -> WinGuestUnmap
      [] OTHER -> HostUnmap

\* the check at the head of Map
MapRejects(e) ==
    CASE e = "lguest" -> LinuxMapRejects(e)
      [] e = "wguest" -> WinMapRejects(e)
      [] OTHER -> HostMapRejects(e)

Issued(call) == \E i \in 1..Len(ret.calls) : ret.calls[i] = call

\* C26: Unmap of a mapped Windows Guest issues the release-mapping request and
\* then CloseHandle; CloseHandle is attempted also when the release-mapping
\* request fails.
C26_UnmapAttemptsBothSteps ==
    [][(/\ WinGuestUnmap
        /\ mapped["wguest"]
        /\ Live(sharedMem["wguest"])
        /\ devHandle = "open")
       => (Issued("ioctl_release") /\ Issued("CloseHandle"))']_vars

\* C29: a Map that fails at one of its steps returns an error and leaves
\* mapped, region and size as they were; an endpoint that was unmapped is
\* still unmapped, and its next Map is not rejected with ErrAlreadyMapped.
C29_FailedMapChangesNothing ==
    [][\A e \in Endpoints :
         (MapOf(e) /\ ret'.res = "error") =>
            /\ mapped'[e] = mapped[e]
            /\ sharedMem'[e] = sharedMem[e]
            /\ size'[e] = size[e]
            /\ ~mapped[e] => (~mapped'[e] /\ ~MapRejects(e)')]_vars

\* Map of a Guest failed at mmap and the Guest is unmapped, with no region
C29_Witness ==
    /\ ret.op = "Map" /\ ret.ep \in Guests /\ ret.res = "error"
    /\ (Issued("mmap") \/ Issued("ioctl_mmap"))
    /\ ~mapped[ret.ep]
    /\ sharedMem[ret.ep] = NoMap
    /\ size[ret.ep] = 0
    /\ shmSize > 0

\* unix.Munmap looks the slice up in the table of the mappings unix.Mmap
\* returned and passes only those on to the kernel
MunmapReachesKernel(m) == Live(m)

\* the Unmap step of e hands a release request to the operating system
ReleaseIssued(e) ==
    IF e = "wguest"
    THEN Issued("ioctl_release")' \/ Issued("CloseHandle")'
    ELSE Issued("munmap")' /\ MunmapReachesKernel(sharedMem[e])

\* an earlier Unmap released the mapping e refers to, or closed its handle
AlreadyReleased(e) ==
    \/ sharedMem[e] # NoMap /\ ~Live(sharedMem[e])
    \/ e = "wguest" /\ devHandle = "closed"

\* C30: over every sequence of Map and Unmap calls on one endpoint, no OS
\* release operation (munmap; release-mapping request and CloseHandle) is
\* issued for a mapping or handle an earlier Unmap already released.
C30_NoDoubleRelease ==
    [][\A e \in Endpoints :
         (UnmapOf(e) /\ ReleaseIssued(e)) => ~AlreadyReleased(e)]_vars

\* ------------------------------------------------------------------------
\* The detail buffer of establishHandle, for any size the probe reports
\* ------------------------------------------------------------------------
MaxReqSize == 9   \* the size probe reports 0..MaxReqSize bytes

\* make([]uint16, reqSize/2)
DetailBufferLen(reqSize) == reqSize \div 2

\* 16-bit elements the store of the leading size field covers: the root
\* package assigns element 0, package guest stores a uint32 through
\* (*uint32)(unsafe.Pointer(&devInterfaceDetailData[0]))
SizeFieldWords(variant) == IF variant = "root" THEN {0} ELSE {0, 1}

\* 16-bit offset of the device path: &devInterfaceDetailData[2:][0]
DevicePathOffset == 2

\* The accesses establishHandle makes to its buffer. asked: the indices the
\* code asks for; touched: the elements read or written, an index the
\* run-time bounds check refuses is asked for and not touched; panicked: a
\* bounds check stopped the function, which then returns nothing.
DetailBufferAccesses(variant, os) ==
    LET len == DetailBufferLen(os.reqSize)
        none == [len |-> len, asked |-> {}, touched |-> {}, panicked |-> FALSE]
    IN IF SetupDiCall(os.enum) # "ERROR_SUCCESS" \/ ~ProbeProceeds(SetupDiCall(os.getsize))
       THEN none
       ELSE IF len = 0
       THEN [none EXCEPT !.asked = {0}, !.panicked = TRUE]
       ELSE IF SetupDiCall(os.detail) # "ERROR_SUCCESS"
       THEN [none EXCEPT !.asked = SizeFieldWords(variant),
                         !.touched = SizeFieldWords(variant)]
       ELSE IF len <= DevicePathOffset
       THEN [none EXCEPT !.asked = SizeFieldWords(variant) \cup {DevicePathOffset},
                         !.touched = SizeFieldWords(variant),
                         !.panicked = TRUE]
       ELSE [none EXCEPT !.asked = SizeFieldWords(variant) \cup {DevicePathOffset},
                         !.touched = SizeFieldWords(variant) \cup {DevicePathOffset}]

InitBuffer ==
    /\ LifecycleInit
    /\ shmSize = 0
    /\ codec = Idle
    /\ enum = Idle
    /\ \E variant \in {"root", "package"} :
       \E e \in {Succeeds, FailsWith("ERROR_NO_MORE_ITEMS")} :
       \E g \in SetupDiResults, d \in SetupDiResults :
       \E n \in 0..MaxReqSize, c \in CreateFileResults :
          ctor = [fn |-> "establishHandle (any size)", variant |-> variant,
                  done |-> FALSE, out |-> "pending",
                  os |-> [enum |-> e, getsize |-> g, reqSize |-> n,
                          detail |-> d, create |-> c]]

EstablishHandleAnySize(variant) ==
    /\ ctor.fn = "establishHandle (any size)"
    /\ ctor.variant = variant
    /\ Returns("establishHandle (any size)",
               [result |-> EstablishHandleSteps(ctor.os),
                buffer |-> DetailBufferAccesses(variant, ctor.os)])

EstablishHandleRootAnySize == EstablishHandleAnySize("root")
EstablishHandlePackageAnySize == EstablishHandleAnySize("package")

NextBuffer == EstablishHandleRootAnySize \/ EstablishHandlePackageAnySize

SpecBuffer == InitBuffer /\ [][NextBuffer]_vars

\* C35: for every size the first detail query reports, 0 and sizes below 6
\* bytes included, establishHandle reads and writes no element outside the
\* buffer of reqSize/2 elements it allocated: it returns an error, or every
\* index it uses for the leading size field and for the device path at
\* 16-bit offset 2 is below reqSize/2.
C35_DetailBufferInBounds ==
    (ctor.fn = "establishHandle (any size)" /\ ctor.done) =>
        LET b == ctor.out.buffer IN
        /\ \A i \in b.touched : i < b.len
        /\ \/ (~b.panicked /\ ctor.out.result.err # "none")
           \/ (~b.panicked /\ \A i \in b.asked : i < b.len)

\* ------------------------------------------------------------------------
\* Two goroutines calling Map on one unmapped Guest
\* ------------------------------------------------------------------------
\* Map takes no lock: its statements interleave with those of another call.
Threads == {"a", "b"}

\* `if g.mapped` in one goroutine while the other may store g.mapped with no
\* synchronisation between them: the load yields the stored value or the
\* value from before the store. The Guest starts unmapped, so every true
\* comes from the racing call.
RacyMapped(g) == {mapped[g], FALSE}

\* `g.sharedMem = sharedMem`
StoreRegionOnce(g, region) ==
    IF sharedMem[g] = NoMap THEN [sharedMem EXCEPT ![g] = region] ELSE sharedMem
StoreRegion(g, region) == [sharedMem EXCEPT ![g] = region]

InitRace ==
    /\ LifecycleInit
    /\ codec = Idle
    /\ enum = Idle
    /\ \E g \in Guests :
          ctor = [fn |-> "Map (concurrent)", g |-> g,
                  pc |-> [t \in Threads |-> "check"],
                  res |-> [t \in Threads |-> "pending"],
                  region |-> [t \in Threads |-> NoMap],
                  last |-> "none"]

raceQuiet == UNCHANGED <<devHandle, shmSize, shm, lastWrite, everMapped, sinceMap, ret,
                         codec, enum>>

\* `if g.mapped { return ErrAlreadyMapped }`
MapCheck(t) ==
    /\ ctor.fn = "Map (concurrent)"
    /\ ctor.pc[t] = "check"
    /\ \E seen \in RacyMapped(ctor.g) :
          ctor' = IF seen
                  THEN [ctor EXCEPT !.pc[t] = "done", !.res[t] = "ErrAlreadyMapped"]
                  ELSE [ctor EXCEPT !.pc[t] = "mmap"]
    /\ UNCHANGED <<endpointVars, maps>>
    /\ raceQuiet

\* stat, open, mmap (Linux); size request, map request (Windows): the
\* operating system grants a mapping or one of the steps fails
MapSyscalls(t) ==
    /\ ctor.fn = "Map (concurrent)"
    /\ ctor.pc[t] = "mmap"
    /\ \/ /\ MmapCanSucceed(MmapLength(shmSize))
          /\ maps' = Append(maps, NewMapping(ctor.g, MmapLength(shmSize), MmapFlags))
          /\ ctor' = [ctor EXCEPT !.pc[t] = "store", !.region[t] = Len(maps) + 1]
       \/ /\ ctor' = [ctor EXCEPT !.pc[t] = "done", !.res[t] = "error"]
          /\ UNCHANGED maps
    /\ UNCHANGED endpointVars
    /\ raceQuiet

\* g.sharedMem = ...; g.size = ...; g.mapped = true; return nil
MapStore(t) ==
    /\ ctor.fn = "Map (concurrent)"
    /\ ctor.pc[t] = "store"
    /\ sharedMem' = StoreRegion(ctor.g, ctor.region[t])
    /\ size' = StoreByPointer(size, ctor.g, shmSize)
    /\ mapped' = StoreByPointer(mapped, ctor.g, TRUE)
    /\ ctor' = [ctor EXCEPT !.pc[t] = "done", !.res[t] = "ok", !.last = t]
    /\ UNCHANGED maps
    /\ raceQuiet

NextRace == \E t \in Threads : MapCheck(t) \/ MapSyscalls(t) \/ MapStore(t)

SpecRace == InitRace /\ [][NextRace]_vars

BothReturnedNil ==
    /\ ctor.fn = "Map (concurrent)"
    /\ \A t \in Threads : ctor.pc[t] = "done" /\ ctor.res[t] = "ok"

LiveMappingsOf(g) == {m \in 1..Len(maps) : maps[m].owner = g /\ maps[m].live}

\* C33: the mapped check and the mapping are not one atomic step. When two
\* goroutines call Map on one unmapped Guest and both calls return nil, both
\* passed the check, each created an OS mapping, and the Guest refers to the
\* one stored last only; neither call answered ErrAlreadyMapped.
C33_ConcurrentMapsBothSucceed ==
    BothReturnedNil =>
        /\ Cardinality(LiveMappingsOf(ctor.g)) = Cardinality(Threads)
        /\ \A t, u \in Threads : t # u => ctor.region[t] # ctor.region[u]
        /\ sharedMem[ctor.g] = ctor.region[ctor.last]
        /\ mapped[ctor.g]
        /\ \E m \in LiveMappingsOf(ctor.g) : m # sharedMem[ctor.g]

\* both calls returned nil: two mappings are live and the Guest refers to b's
C33_Witness ==
    /\ BothReturnedNil
    /\ ctor.g = "lguest"
    /\ ctor.last = "b"
    /\ LiveMappingsOf("lguest") = {ctor.region["a"], ctor.region["b"]}
    /\ ctor.region["a"] # ctor.region["b"]
    /\ sharedMem["lguest"] = ctor.region["b"]

\* ------------------------------------------------------------------------
\* A caller who keeps calling Map and Unmap on the Windows Guest
\* ------------------------------------------------------------------------
\* The handle NewGuest opened is closed by Unmap alone. Each call the caller
\* can make is made again and again; whether a step of Map succeeds is up to
\* the operating system.
SpecRelease == Init /\ [][Next]_vars /\ WF_vars(WinGuestMap) /\ WF_vars(WinGuestUnmap)

\* C31: the device handle NewGuest opened can always be released: also for a
\* Guest on which Map was never called, or has only failed, the public
\* operations lead to a state in which the handle is closed.
C31_HandleReleaseReachable ==
    <>(devHandle = "closed" \/ everMapped["wguest"])

\* ------------------------------------------------------------------------
\* Linux ListDevices and New on one set of directory entries
\* ------------------------------------------------------------------------
Listed == LinuxListDevicesOf(ctor.order)

KeptNames == ListIvshmemPCIRaw(ctor.order).names

\* C32: with the directory entries unchanged, New(L) succeeds for every
\* location L a successful ListDevices() returned, and the Guest's device
\* path is built on a kept name that parses to L, whatever other kept
\* entries are present, those with unparseable names included.
C32_LinuxListAndNewAgree ==
    (/\ ctor.fn = "New (linux)" /\ ctor.done
     /\ Listed.err = "none"
     /\ \E i \in 1..Len(Listed.list) : Listed.list[i] = ctor.arg)
    => /\ ctor.out.err = "none"
       /\ ctor.out.made
       /\ \E i \in 1..Len(KeptNames) :
             /\ ctor.out.endpoint.devPath = KeptNames[i]
             /\ SysfsConvertLocation(KeptNames[i]) = Parsed(ctor.arg)

\* ------------------------------------------------------------------------
\* Properties of the map/unmap state machine
\* ------------------------------------------------------------------------

\* the OS mappings endpoint e created and has not released
Owned(e) == {m \in 1..Len(maps) : maps[m].owner = e /\ maps[m].live}

\* C1: on a Guest (Linux or Windows) whose Map() has succeeded and on which
\* no Unmap() was called since, a further Map() returns ErrAlreadyMapped,
\* issues no OS call and leaves region, size and mapped as they were.
C1_SecondMapRejected ==
    [][\A g \in Guests :
          (sinceMap[g] /\ ret'.op = "Map" /\ ret'.ep = g) =>
              /\ ret'.res = "ErrAlreadyMapped"
              /\ ret'.calls = <<>>
              /\ sharedMem'[g] = sharedMem[g]
              /\ size'[g] = size[g]
              /\ mapped'[g] = mapped[g]
              /\ maps' = maps]_vars

C1_Witness ==
    /\ ret.op = "Map" /\ ret.ep \in Guests /\ ret.res = "ErrAlreadyMapped"
    /\ sinceMap[ret.ep] /\ Live(sharedMem[ret.ep])

\* C2: a successful Unmap() on a mapped Guest leaves the caller's Guest with
\* mapped == false, and a second Unmap() on it fails with ErrAlreadyUnmapped.
C2_UnmapReachesUnmapped ==
    /\ []((ret.op = "Unmap" /\ ret.ep \in Guests /\ ret.res = "ok") => ~mapped[ret.ep])
    /\ [][(ret.op = "Unmap" /\ ret.ep \in Guests /\ ret.res = "ok"
           /\ ret'.op = "Unmap" /\ ret'.ep = ret.ep)
          => ret'.res = "ErrAlreadyUnmapped"]_vars

\* C3: after Map() and a successful Unmap() on a Guest, the following Map()
\* on it is not rejected with ErrAlreadyMapped.
C3_MapAfterUnmapAccepted ==
    [][(ret.op = "Unmap" /\ ret.ep \in Guests /\ ret.res = "ok"
        /\ ret'.op = "Map" /\ ret'.ep = ret.ep)
       => ret'.res # "ErrAlreadyMapped"]_vars

\* C4: SharedMem() returns a region view only if the OS mapping behind that
\* view is live; after a successful Unmap() it never returns the released
\* region.
C4_NoUseAfterUnmap ==
    (ret.op = "SharedMem" /\ ret.res = "ok") => Live(ret.view)

\* C5: SharedMem() on an endpoint on which no Map() has ever succeeded
\* panics; it returns neither a region nor an error value.
C5_SharedMemBeforeMapPanics ==
    \A e \in Endpoints :
        (ret.op = "SharedMem" /\ ret.ep = e /\ ~everMapped[e]) => ret.res = "panic"

C5_Witness ==
    /\ ret.op = "SharedMem" /\ ret.res = "panic" /\ ~everMapped[ret.ep]

\* C6: Unmap() on a Guest on which no Map() has succeeded returns
\* ErrAlreadyUnmapped, issues no OS call and changes nothing of the endpoint.
C6_UnmapOfUnmappedRejected ==
    [][\A g \in Guests :
          (~everMapped[g] /\ ret'.op = "Unmap" /\ ret'.ep = g) =>
              /\ ret'.res = "ErrAlreadyUnmapped"
              /\ ret'.calls = <<>>
              /\ sharedMem'[g] = sharedMem[g]
              /\ size'[g] = size[g]
              /\ mapped'[g] = mapped[g]
              /\ maps' = maps
              /\ devHandle' = devHandle]_vars

C6_Witness ==
    /\ ret.op = "Unmap" /\ ret.ep \in Guests /\ ret.res = "ErrAlreadyUnmapped"
    /\ ~everMapped[ret.ep]

\* C7: Map() on a Host that is already mapped fails with ErrAlreadyMapped,
\* and Unmap() on a Host that is not mapped fails with ErrAlreadyUnmapped
\* without calling munmap.
C7_HostStateMachine ==
    [][/\ (mapped["host"] /\ ret'.op = "Map" /\ ret'.ep = "host")
            => ret'.res = "ErrAlreadyMapped"
       /\ (~mapped["host"] /\ ret'.op = "Unmap" /\ ret'.ep = "host")
            => (ret'.res = "ErrAlreadyUnmapped" /\ ret'.calls = <<>>)]_vars

\* C8: an endpoint owns at most one unreleased OS mapping, and that one is
\* the mapping its region field refers to.
C8_AtMostOneMapping ==
    \A e \in Endpoints :
        /\ Cardinality(Owned(e)) <= 1
        /\ Owned(e) \subseteq {sharedMem[e]}

\* C9: after a successful Map() on a backing object of size S, Size() is S
\* and the region SharedMem() returns is S bytes long.
C9_SizeIsObjectSize ==
    (ret.op = "Map" /\ ret.res = "ok") =>
        /\ ~SharedMemPanics(ret.ep)
        /\ size[ret.ep] = shmSize
        /\ RegionLen(ret.ep) = shmSize

C9_Witness ==
    /\ ret.op = "Map" /\ ret.res = "ok" /\ shmSize > 1
    /\ size[ret.ep] = shmSize

\* C10: when two endpoints hold a mapping of the backing object, the bytes
\* one of them stored through its region are, after its successful Sync(),
\* read at the same offsets through the region of the other.
C10_SharedBytes ==
    \A e1 \in Writers, e2 \in Writers :
        (/\ ret.op = "Sync" /\ ret.ep = e1 /\ ret.res = "ok"
         /\ e2 # e1 /\ Live(sharedMem[e1]) /\ Live(sharedMem[e2]))
        => \A o \in Offsets :
              (lastWrite[o].ep = e1 /\ o < RegionLen(e2))
                  => Read(e2, o) = lastWrite[o].val

C10_Witness ==
    /\ ret.op = "Sync" /\ ret.ep = "host" /\ ret.res = "ok"
    /\ Live(sharedMem["host"]) /\ Live(sharedMem["lguest"])
    /\ lastWrite[0] = [ep |-> "host", val |-> 1]
    /\ Read("lguest", 0) = 1

====
